---- MODULE Spec2Model ----
(*****************************************************************************)
(* A model of the TellorMiner submission pipeline:                           *)
(*   - rpc.SubmitContractTxn      (src/Makefile, package rpc)                *)
(*   - pow.SolutionHandler.Submit (src/pkg/pow/miningGroup_test.go)          *)
(*   - tracker.TimeOutTracker.Exec (src/unnamed/part_002)                    *)
(*   - tracker.CheckValueAtTime   (src/unnamed/part_000)                     *)
(*   - AddDBToCtx, mineCmd        (src/unnamed/part_007, package main)       *)
(*   - pow.MiningGroup.Mine       (after spec.md 4.2 and 4.3; the source     *)
(*                                 holds only its tests)                     *)
(*   - the puzzle check of a Result (miningGroup_test.go; SpecPuzzle)        *)
(*   - web.Fetch, web.Get         (src/unnamed/part_003, part_004)           *)
(*   - index.JSONapiVolume.Get, IndexTracker.record                          *)
(*                                (src/pkg/tracker/index/index.go)           *)
(*   - the trackers' polls        (disputeStatus.go, part_001, part_002)     *)
(*   - tracker.disputeChecker.Exec (src/unnamed/part_000)                    *)
(*   - tracker.GasTracker.Exec    (src/pkg/tracker/gas.go)                   *)
(*   - ProfitChecker.setProfitWhenConfirmed (src/unnamed/part_005)           *)
(* Each component has its own specifications (SpecTxn, SpecHandler,          *)
(* SpecValues, SpecStore, SpecCmd, FairSpecCmd, SpecMine, SpecGroup,         *)
(* FairSpecGroup, SpecCheck, SpecPuzzle, SpecFetch, SpecVolume,              *)
(* SpecTracker, SpecSampler, SpecChecker, SpecGasTracker, SpecProfit);       *)
(* the variables of the other components stay at their initial value.        *)
(*****************************************************************************)
EXTENDS Integers, Sequences, FiniteSets, TLC

VARIABLES
    \* ---- SubmitContractTxn: environment and configuration
    chainNonce,     \* client.NonceAt for the account
    dbGas,          \* bytes stored under db.GasKey ("" when absent)
    cfgGasMax,      \* cfg.GasMax
    cfgMulTenths,   \* cfg.GasMultiplier, in tenths (a float in the source)
    ctxCancelled,   \* ctx.Done() is closed
    \* ---- SubmitContractTxn: locals
    txPc,           \* "start" | "loop" | "sleep" | "returned" | "panicked"
    i,              \* loop counter
    IntNonce,
    gasPrice,
    finalError,
    ret,            \* the (tx, err) pair returned
    \* ---- SubmitContractTxn: observation of the callback invocations
    calls,          \* number of invocations of callback
    lastCall,       \* the latest invocation: attempt, auth fields, balance, outcome
    firstPrice,     \* auth.GasPrice of the first invocation (-1 before it)
    nLow,           \* invocations so far that failed with "nonce too low"
    \* ---- SolutionHandler, TimeOutTracker and their environment
    kv,             \* the KV store behind proxy and DB: key -> bytes
    manualData,     \* configs/manualData.json: request id -> VALUE (0 when absent)
    whitelist,      \* cfg.ServerWhitelist
    clock,          \* time.Now(), in seconds
    handler,        \* the SolutionHandler's currentChallenge, currentNonce, currentValues
    submitted,      \* invocations of submitter.PrepareTransaction, per challenge
    lastSubmit,     \* observation of the latest Submit call
    psr,            \* PSRValueForTime: request id -> the five sample points around now
    disputeFiles,   \* possible-dispute-*.txt files written so far
    trackerRet,     \* TimeOutTracker.Exec: the runs so far and how the latest ended
    \* ---- the database file and AddDBToCtx
    dbFile,         \* the contents of cfg.DBFile on disk: key -> bytes
    dbHandle,       \* the process: running or not, the DB handle and proxy in ctx
    putLog,         \* the value most recently Put under each key, in any run
    \* ---- mineCmd after the kill signal
    cmdPc,          \* "waitSig" | "notify" | "poll" | "exited"
    exitIdx,        \* index of the exit channel the next send goes to
    cnt,            \* the poll counter
    components,     \* the data server and the miner: "nil" | "running" | "signalled" | "stopped"
    \* ---- MiningGroup.Mine
    groupPc,        \* "idle" | "mining" | "draining" | "closed"
    work,           \* the Work dispatched to the hashers (0: none)
    accepted,       \* number of Works read from the input channel
    pending,        \* what follows the drain: "none" | "emit" | "dispatch" | "close"
    winner,         \* the Work whose nonce was found (0: none)
    hashers,        \* per hasher: "idle" | "busy" | "exhausted" | "cancelled"
    round,          \* dispatch rounds of the current Work
    output,         \* the Results written to the output channel
    nilSent,        \* a nil Work was read from the input channel
    preempted,      \* Works cancelled before their Result, with the phase they were in
    \* ---- one record per further component (<<>> while it is not running)
    valueCheck,     \* CheckValueAtTime: its arguments, the PSR sample points and its result
    puzzle,         \* a hasher working on one Work: the challenge, the range, the Result
    fetch,          \* web.Fetch / web.Get: the loop, the attempts made, what it returned
    volume,         \* a JSONapiVolume source: lastTS, what its Gets fetched and returned
    tracker,        \* a chain tracker: its kind, what the store holds under its key, its Execs
    sampler,        \* IndexTracker.record for one source: its loop, the series, the error counter
    checker,        \* disputeChecker: lastCheckedBlock and the ranges its Exec calls scanned
    gasTracker,     \* GasTracker.Exec against the gas_price entry of the store
    profit          \* ProfitChecker.setProfitWhenConfirmed for one Transferred event

txnVars == <<chainNonce, dbGas, cfgGasMax, cfgMulTenths, ctxCancelled, txPc, i,
             IntNonce, gasPrice, finalError, ret, calls, lastCall,
             firstPrice, nLow>>
handlerVars == <<kv, manualData, whitelist, clock, handler, submitted, lastSubmit,
                 psr, disputeFiles, trackerRet>>
storeVars == <<dbFile, dbHandle, putLog>>
cmdVars == <<cmdPc, exitIdx, cnt, components>>
groupVars == <<groupPc, work, accepted, pending, winner, hashers, round, output,
               nilSent, preempted>>
oldVars == <<txnVars, handlerVars, storeVars, cmdVars, groupVars>>
laterVars == <<valueCheck, puzzle, fetch, volume, tracker, sampler, checker, gasTracker, profit>>
vars == <<oldVars, laterVars>>
\* What the actions of one component leave alone.
notTxn == <<handlerVars, storeVars, cmdVars, groupVars, laterVars>>
notHandler == <<txnVars, storeVars, cmdVars, groupVars, laterVars>>
notStore == <<txnVars, handlerVars, cmdVars, groupVars, laterVars>>
notCmd == <<txnVars, handlerVars, storeVars, groupVars, laterVars>>
notGroup == <<txnVars, handlerVars, storeVars, cmdVars, laterVars>>

-----------------------------------------------------------------------------
\* Bounds of the model.

\* Largest account nonce the chain reports at entry.
MaxNonce == 1
\* Wei per gwei. tellorCommon.GWEI is 10^9; prices are scaled down so that
\* products such as gasPrice * 3000000 stay inside TLC's 32-bit integers.
GWEI == 10

-----------------------------------------------------------------------------
\* hexutil: values in the KV store are hex strings, modelled as sequences of
\* one-character strings.

HexChars == <<"0", "1", "2", "3", "4", "5", "6", "7",
              "8", "9", "a", "b", "c", "d", "e", "f">>

RECURSIVE HexOf(_)
HexOf(n) ==
    IF n < 16 THEN <<HexChars[n + 1]>>
    ELSE HexOf(n \div 16) \o <<HexChars[(n % 16) + 1]>>

EncodeBig_LastDigit(n) == <<"0", "x", HexChars[(n % 16) + 1]>>

\* hexutil.EncodeBig for a non-negative integer.
EncodeBig(n) == <<"0", "x">> \o HexOf(n)

HexDigitVal(c) == CHOOSE d \in 0..15 : HexChars[d + 1] = c
IsHexDigit(c) == \E d \in 0..15 : HexChars[d + 1] = c

HexVal_LastDigit(ds) ==
    IF Len(ds) = 0 THEN 0 ELSE HexDigitVal(ds[Len(ds)])

\* The number a string of hex digits denotes.
RECURSIVE HexVal(_)
HexVal(ds) ==
    IF Len(ds) = 0 THEN 0
    ELSE 16 * HexVal(SubSeq(ds, 1, Len(ds) - 1)) + HexDigitVal(ds[Len(ds)])

\* hexutil.DecodeBig succeeds: "0x" prefix, at least one digit, no leading
\* zero unless the number is "0x0", hex digits only.
DecodeBigOk(s) ==
    /\ Len(s) >= 3
    /\ s[1] = "0" /\ s[2] = "x"
    /\ (Len(s) > 3 => s[3] # "0")
    /\ \A k \in 3..Len(s) : IsHexDigit(s[k])

DecodeBig(s) == HexVal(SubSeq(s, 3, Len(s)))

\* A value that is present but is no hex number.
Garbage == <<"z", "z">>
\* An absent key reads as the empty byte string.
Absent == <<>>

-----------------------------------------------------------------------------
\* SubmitContractTxn

NilErr == "nil"
\* A nil *big.Int.
Nil == -1
\* A failed client.BalanceAt.
BalErr == -1
NoCall == [i |-> -1, nonce |-> -1, gasPrice |-> -1, value |-> -1,
           gasLimit |-> -1, balance |-> -1, err |-> "none"]
NoRet == [tx |-> FALSE, err |-> "none", cause |-> "none"]

\* The gas limit set on every transactor.
GasLimit == 3000000
\* The gas units the balance check prices.
BalanceCheckGas == 200000
\* The replacement price when gasPrice is zero inside the loop.
ZeroGasDefault == 100
\* The maximum, in gwei, used when cfg.GasMax is not positive.
DefaultGasMax == 100
\* The bump per attempt, in percent.
BumpPercent == 11
LastAttempt_OneMore == 5 + 1

\* The last value of the loop counter: for i := 0; i <= 5; i++.
LastAttempt == 5

\* getInt: nil for empty or undecodable data.
getInt(data) ==
    IF Len(data) = 0 THEN Nil
    ELSE IF ~DecodeBigOk(data) THEN Nil
    ELSE DecodeBig(data)

\* int64(mul) of the float multiplier: truncation toward zero.
MulInt(tenths) == tenths \div 10

\* gasPrice.Mul(gasPrice, big.NewInt(int64(mul))) when mul > 0.
ApplyMultiplier(price, tenths) ==
    IF tenths > 0 THEN price * MulInt(tenths) ELSE price

\* cost = gasPrice * 200000.
Cost(price) == price * BalanceCheckGas

\* if gasPrice == 0 { gasPrice = 100 }
NonZeroGasPrice(price) == IF price = 0 THEN ZeroGasDefault ELSE price

AttemptGasPrice_LateBump(price, n) ==
    IF n > 2 THEN price + ((price * (n * BumpPercent)) \div 100)
    ELSE price

\* auth.GasPrice before the clamp: bumped by i*11 percent when i > 1.
AttemptGasPrice(price, n) ==
    IF n > 1 THEN price + ((price * (n * BumpPercent)) \div 100)
    ELSE price

\* maxGasPrice: cfg.GasMax gwei, or 100 gwei when cfg.GasMax is not positive.
MaxGasPrice(max) ==
    IF max > 0 THEN GWEI * max ELSE GWEI * DefaultGasMax

ClampGasPrice_NoClamp(price, max) == price

\* if auth.GasPrice > maxGasPrice { auth.GasPrice = maxGasPrice }
ClampGasPrice(price, max) ==
    IF price > MaxGasPrice(max) THEN MaxGasPrice(max) ELSE price

\* Error messages of the callback are modelled by the fragments they contain.
NonceTooLow == "nonce too low"
Underpriced == "replacement transaction underpriced"
ErrMsgs == SUBSET {NonceTooLow, Underpriced}

\* The classification of a callback error by strings.Contains.
Classify(msg) ==
    IF NonceTooLow \in msg THEN "nonceTooLow"
    ELSE IF Underpriced \in msg THEN "underpriced"
    ELSE "callback"

NonceAfterError_Sticky(nonce, msg) == nonce
NonceAfterError_Always(nonce, msg) == nonce + 1

\* IntNonce after a callback error.
NonceAfterError(nonce, msg) ==
    IF Classify(msg) = "nonceTooLow" THEN nonce + 1 ELSE nonce

\* finalError after a callback error.
FinalErrorAfter(fe, msg) ==
    IF Classify(msg) = "nonceTooLow" THEN fe
    ELSE IF Classify(msg) = "underpriced" THEN "underpriced"
    ELSE "callback"

\* errors.Wrapf returns nil when the wrapped error is nil.
Wrapf(err) == IF err = NilErr THEN NilErr ELSE "submit txn after 5 attempts"

SelectCase_TimerOnly(cancelled) == "timer"

\* The select after a failed callback: ctx.Done() against time.After(delay).
\* A context cancelled before the timer fires takes the first case.
SelectCase(cancelled) == IF cancelled THEN "ctxDone" ELSE "timer"

\* What client.SuggestGasPrice may return: an error or a price.
SuggestErr == -1
SuggestResults == {SuggestErr, 0, 8}

\* What client.BalanceAt may return, around the two costs of an attempt.
BalanceReadings(price) ==
    {b \in {Cost(price) - 1, Cost(price), price * GasLimit} : b >= 0} \cup {BalErr}

\* What the callback may return: a transaction or an error message.
Outcomes == {[ok |-> TRUE, msg |-> {}]} \cup {[ok |-> FALSE, msg |-> m] : m \in ErrMsgs}

ReturnWith(tx, err, cause) ==
    /\ txPc' = "returned"
    /\ ret' = [tx |-> tx, err |-> err, cause |-> cause]

\* continue: i++, and the return after the loop when i <= 5 fails.
Continue(fe) ==
    /\ i' = i + 1
    /\ finalError' = fe
    /\ IF i + 1 > LastAttempt
       THEN ReturnWith(FALSE, Wrapf(fe), fe)
       ELSE txPc' = "loop" /\ ret' = ret

txnEnv == <<chainNonce, dbGas, cfgGasMax, cfgMulTenths>>
txnObs == <<calls, lastCall, firstPrice, nLow>>

\* Lines 384-410: the nonce, the stored gas price, the multiplier.
TxnEntry ==
    /\ txPc = "start"
    /\ \E nonceOk \in BOOLEAN, dbOk \in BOOLEAN, suggest \in SuggestResults :
         LET g == getInt(dbGas) IN
         IF ~nonceOk THEN
            /\ ReturnWith(FALSE, "getting nonce for miner address", "rpc")
            /\ UNCHANGED <<i, IntNonce, gasPrice, finalError>>
         ELSE IF ~dbOk THEN
            /\ ReturnWith(FALSE, "getting data from the db", "rpc")
            /\ UNCHANGED <<i, IntNonce, gasPrice, finalError>>
         ELSE IF g = Nil THEN
            \* gasPrice.Cmp on a nil *big.Int: nil pointer dereference
            /\ txPc' = "panicked"
            /\ UNCHANGED <<i, IntNonce, gasPrice, finalError, ret>>
         ELSE IF g = 0 /\ suggest = SuggestErr THEN
            /\ ReturnWith(FALSE, "determine gas price to submit txn", "rpc")
            /\ UNCHANGED <<i, IntNonce, gasPrice, finalError>>
         ELSE
            /\ IntNonce' = chainNonce
            /\ gasPrice' = ApplyMultiplier(IF g = 0 THEN suggest ELSE g, cfgMulTenths)
            /\ i' = 0
            /\ finalError' = NilErr
            /\ txPc' = "loop"
            /\ ret' = ret
    /\ UNCHANGED <<txnEnv, ctxCancelled, txnObs, notTxn>>

\* Lines 413-488: one iteration of the attempt loop, up to its continue,
\* its return or its select.
Attempt ==
    /\ txPc = "loop"
    /\ \E bal \in BalanceReadings(gasPrice) :
         IF bal = BalErr THEN
            /\ Continue("balance")
            /\ UNCHANGED <<IntNonce, gasPrice, txnObs>>
         ELSE IF bal < Cost(gasPrice) THEN
            /\ Continue("insufficient funds")
            /\ UNCHANGED <<IntNonce, gasPrice, txnObs>>
         ELSE
            \/ \E failed \in {"getting network id", "creating transactor"} :
                 /\ ReturnWith(FALSE, failed, "rpc")
                 /\ UNCHANGED <<i, IntNonce, gasPrice, finalError, txnObs>>
            \/ \E out \in Outcomes :
                 LET gp == NonZeroGasPrice(gasPrice)
                     auth == [i |-> i, nonce |-> IntNonce,
                              gasPrice |-> ClampGasPrice(AttemptGasPrice(gp, i), cfgGasMax),
                              value |-> 0, gasLimit |-> GasLimit, balance |-> bal,
                              err |-> IF out.ok THEN NilErr ELSE Classify(out.msg)]
                 IN
                 /\ gasPrice' = gp
                 /\ calls' = calls + 1
                 /\ lastCall' = auth
                 /\ firstPrice' = IF calls = 0 THEN auth.gasPrice ELSE firstPrice
                 /\ IF out.ok THEN
                       /\ ReturnWith(TRUE, NilErr, NilErr)
                       /\ UNCHANGED <<i, IntNonce, finalError, nLow>>
                    ELSE
                       /\ IntNonce' = NonceAfterError(IntNonce, out.msg)
                       /\ nLow' = IF Classify(out.msg) = "nonceTooLow"
                                  THEN nLow + 1 ELSE nLow
                       /\ finalError' = FinalErrorAfter(finalError, out.msg)
                       /\ i' = i
                       /\ IF SelectCase(ctxCancelled) = "ctxDone"
                          THEN ReturnWith(FALSE, "the submit context was canceled",
                                          "ctx done before the wait")
                          ELSE txPc' = "sleep" /\ ret' = ret
    /\ UNCHANGED <<txnEnv, ctxCancelled, notTxn>>

\* Lines 483-484: the 15 second delay elapses.
TimerFires ==
    /\ txPc = "sleep"
    /\ Continue(finalError)
    /\ UNCHANGED <<txnEnv, ctxCancelled, IntNonce, gasPrice, txnObs, notTxn>>

\* The caller cancels ctx. A call blocked in the select is woken by it.
CancelCtx ==
    /\ txPc \in {"start", "loop", "sleep"}
    /\ ~ctxCancelled
    /\ ctxCancelled' = TRUE
    /\ IF txPc = "sleep"
       THEN IF SelectCase(TRUE) = "ctxDone"
            THEN /\ ReturnWith(FALSE, "the submit context was canceled",
                            "ctx done during the wait")
                 /\ UNCHANGED <<i, finalError>>
            ELSE Continue(finalError)
       ELSE UNCHANGED <<txPc, ret, i, finalError>>
    /\ UNCHANGED <<txnEnv, IntNonce, gasPrice, txnObs, notTxn>>

\* Stored gas prices tried: absent, undecodable, zero, and prices below,
\* near and above the smallest maximum.
GasEntries == {Absent, Garbage, EncodeBig(0), EncodeBig(7), EncodeBig(25)}
GasMaxes == {0, 1, 2}
MulTenths == {0, 5, 20}

HandlerIdle ==
    /\ kv = <<>>
    /\ manualData = <<>>
    /\ whitelist = {}
    /\ clock = 0
    /\ handler = <<>>
    /\ submitted = <<>>
    /\ lastSubmit = <<>>
    /\ psr = <<>>
    /\ disputeFiles = 0
    /\ trackerRet = <<>>

TxnIdle ==
    /\ chainNonce = 0
    /\ dbGas = Absent
    /\ cfgGasMax = 0
    /\ cfgMulTenths = 0
    /\ ctxCancelled = FALSE
    /\ txPc = "idle"
    /\ i = 0
    /\ IntNonce = 0
    /\ gasPrice = 0
    /\ finalError = NilErr
    /\ ret = NoRet
    /\ calls = 0
    /\ lastCall = NoCall
    /\ firstPrice = -1
    /\ nLow = 0

StoreIdle ==
    /\ dbFile = <<>>
    /\ dbHandle = <<>>
    /\ putLog = <<>>

CmdIdle ==
    /\ cmdPc = "idle"
    /\ exitIdx = 0
    /\ cnt = 0
    /\ components = <<>>

GroupIdle ==
    /\ groupPc = "none"
    /\ work = 0
    /\ accepted = 0
    /\ pending = "none"
    /\ winner = 0
    /\ hashers = <<>>
    /\ round = 0
    /\ output = <<>>
    /\ nilSent = FALSE
    /\ preempted = {}

\* Every component but c is at rest.
IdleBut(c) ==
    /\ IF c = "txn" THEN TRUE ELSE TxnIdle
    /\ IF c = "handler" THEN TRUE ELSE HandlerIdle
    /\ IF c = "store" THEN TRUE ELSE StoreIdle
    /\ IF c = "cmd" THEN TRUE ELSE CmdIdle
    /\ IF c = "group" THEN TRUE ELSE GroupIdle
    /\ IF c = "valueCheck" THEN TRUE ELSE valueCheck = <<>>
    /\ IF c = "puzzle" THEN TRUE ELSE puzzle = <<>>
    /\ IF c = "fetch" THEN TRUE ELSE fetch = <<>>
    /\ IF c = "volume" THEN TRUE ELSE volume = <<>>
    /\ IF c = "tracker" THEN TRUE ELSE tracker = <<>>
    /\ IF c = "sampler" THEN TRUE ELSE sampler = <<>>
    /\ IF c = "checker" THEN TRUE ELSE checker = <<>>
    /\ IF c = "gasTracker" THEN TRUE ELSE gasTracker = <<>>
    /\ IF c = "profit" THEN TRUE ELSE profit = <<>>

InitTxn ==
    /\ chainNonce \in 0..MaxNonce
    /\ dbGas \in GasEntries
    /\ cfgGasMax \in GasMaxes
    /\ cfgMulTenths \in MulTenths
    /\ ctxCancelled = FALSE
    /\ txPc = "start"
    /\ i = 0
    /\ IntNonce = 0
    /\ gasPrice = 0
    /\ finalError = NilErr
    /\ ret = NoRet
    /\ calls = 0
    /\ lastCall = NoCall
    /\ firstPrice = -1
    /\ nLow = 0
    /\ IdleBut("txn")

NextTxn == TxnEntry \/ Attempt \/ TimerFires \/ CancelCtx

SpecTxn == InitTxn /\ [][NextTxn]_vars

-----------------------------------------------------------------------------
\* SolutionHandler.Submit and TimeOutTracker.Exec

\* Number of Submit calls and of TimeOutTracker.Exec runs in one behaviour.
MaxSubmits == 2
MaxExecs == 1

\* cfg.PublicAddress, and the addresses a whitelist may name.
PublicAddress == "0xAB"
\* strings.ToLower(common.HexToAddress(a).Hex())
LowerHex(a) ==
    CASE a = "0xAB" -> "0xab"
      [] a = "0xCD" -> "0xcd"
      [] OTHER -> a
LowerAddrs == {"0xab", "0xcd"}

\* The request ids of the challenges: ids up to 53, the boundary, and above.
RequestIDs == <<1, 2, 53, 54, 60>>
ReqIDSet == {RequestIDs[k] : k \in 1..5}
Challenges == {"c1", "c2"}
\* The winning nonce of a Result; Submit only passes it on.
Nonces == {"n1"}
LegacyMaxID_Low == 53 - 1
LegacyMaxID_High == 53 + 7

\* The ids up to which a missing value is looked up in manualData.json.
LegacyMaxID == 53
\* time.Duration(15) * time.Minute, in seconds.
FifteenMinutes == 900
\* The time of the miner's last submit as the chain reports it, and the
\* times at which Submit runs: 5 min, 14 min 59 s and 15 min later.
LastMined == 1000
Statuses == {0, LastMined}
Times == {LastMined + 300, LastMined + 899, LastMined + 900}

NoValues == [k \in 1..5 |-> Nil]
\* No PrepareTransaction in a Submit call.
NoTxn == [ctxName |-> "none", nonce |-> "none", requestIDs |-> RequestIDs,
          values |-> NoValues]

\* What the environment does to one Submit call: nothing, or one failure:
\* proxy.Get fails, the BatchGet of one request id fails, or
\* configs/manualData.json cannot be opened or parsed.
NoFault == [get |-> FALSE, batchAt |-> 0, file |-> "ok"]
Faults ==
    {NoFault, [NoFault EXCEPT !.get = TRUE], [NoFault EXCEPT !.batchAt = 3],
     [NoFault EXCEPT !.file = "missing"], [NoFault EXCEPT !.file = "corrupt"]}

\* One iteration of the loop over the five request ids (lines 302-352), then
\* the rest of the loop. st holds the values filled in so far and manualVal.
RECURSIVE FillValues(_, _, _, _)
FillValues(k, st, batchFailAt, file) ==
    IF k > 5 THEN [ok |-> TRUE, reason |-> "ready", values |-> st.values,
                   manualVal |-> st.manualVal]
    ELSE
    LET id == RequestIDs[k]
        val == kv.queried[id]
        fail(why) == [ok |-> FALSE, reason |-> why, values |-> st.values,
                      manualVal |-> st.manualVal]
        \* manualVal after the len(val) == 0 branch
        readsFile == Len(val) = 0 /\ ~(id > LegacyMaxID)
        mv == IF readsFile /\ file = "ok" THEN manualData[id] ELSE st.manualVal
        \* value after hexutil.DecodeBig and its error branch; Nil is a nil *big.Int
        decodes == DecodeBigOk(val)
        value ==
            IF decodes THEN DecodeBig(val)
            ELSE IF id > LegacyMaxID THEN (IF Len(val) = 0 THEN 0 ELSE Nil)
            ELSE mv
    IN
    IF batchFailAt = k THEN fail("could not retrieve pricing data")
    ELSE IF readsFile /\ file = "missing" THEN fail("manualData read error")
    ELSE IF readsFile /\ file = "corrupt" THEN fail("error unmarshaling")
    ELSE IF readsFile /\ mv = 0 THEN fail("no value in database")
    ELSE IF ~decodes /\ ~(id > LegacyMaxID) /\ ~(mv > 0)
         THEN [ok |-> FALSE, reason |-> "no value in database (2)",
               values |-> st.values, manualVal |-> mv]
    ELSE FillValues(k + 1,
                    [values |-> [st.values EXCEPT ![k] = value], manualVal |-> mv],
                    batchFailAt, file)

WithinFifteenMinutes_Inclusive(now, last) == now - last <= FifteenMinutes

\* today.Sub(tm) < 15 minutes, for last > 0.
WithinFifteenMinutes(now, last) == now - last < FifteenMinutes

\* Lines 280-301: the time-out read and the fifteen minute rule.
\* "go on" when the value loop is reached.
TimeOutCheck(lastS, getErr, now) ==
    IF getErr THEN "timeout retrieval error"
    ELSE IF ~DecodeBigOk(lastS) THEN "timeout key decode error"
    ELSE IF DecodeBig(lastS) > 0 /\ WithinFifteenMinutes(now, DecodeBig(lastS))
         THEN "within fifteen minutes"
    ELSE "go on"

\* SolutionHandler.Submit(ctx, result), lines 271-361.
Submit ==
    /\ lastSubmit.n < MaxSubmits
    /\ \E challenge \in Challenges, nonce \in Nonces, now \in Times,
          fault \in Faults :
         LET lastS == kv.minerTimeOut[LowerHex(PublicAddress)]
             pre == TimeOutCheck(lastS, fault.get, now)
             fill == FillValues(1, [values |-> handler.currentValues, manualVal |-> 0],
                                fault.batchAt, fault.file)
             h0 == [handler EXCEPT !.currentChallenge = challenge,
                                   !.currentNonce = nonce]
         IN
         /\ now >= clock
         /\ clock' = now
         /\ IF pre # "go on" THEN
               /\ handler' = h0
               /\ submitted' = submitted
               /\ lastSubmit' = [n |-> lastSubmit.n + 1, challenge |-> challenge,
                                 now |-> now, lastS |-> lastS, result |-> FALSE,
                                 reason |-> pre, prepared |-> NoTxn]
            ELSE IF ~fill.ok THEN
               /\ handler' = [h0 EXCEPT !.currentValues = fill.values]
               /\ submitted' = submitted
               /\ lastSubmit' = [n |-> lastSubmit.n + 1, challenge |-> challenge,
                                 now |-> now, lastS |-> lastS, result |-> FALSE,
                                 reason |-> fill.reason, prepared |-> NoTxn]
            ELSE
               /\ handler' = [h0 EXCEPT !.currentValues = fill.values]
               \* s.submitter.PrepareTransaction(ctx, s.proxy, "submitSolution", s.submit);
               \* its error is only logged. s.submit passes the handler's fields on.
               /\ submitted' = [submitted EXCEPT ![challenge] = @ + 1]
               /\ lastSubmit' = [n |-> lastSubmit.n + 1, challenge |-> challenge,
                                 now |-> now, lastS |-> lastS, result |-> TRUE,
                                 reason |-> "submitted",
                                 prepared |-> [ctxName |-> "submitSolution",
                                               nonce |-> nonce,
                                               requestIDs |-> RequestIDs,
                                               values |-> fill.values]]
    /\ UNCHANGED <<kv, manualData, whitelist, psr, disputeFiles, trackerRet, notHandler>>

\* What instance.GetUintVar and DB.Put may do in one Exec: everything works,
\* or one call fails.
ExecFailures ==
    {[kind |-> "none", at |-> 0], [kind |-> "getOwn", at |-> 0],
     [kind |-> "putOwn", at |-> 0]}
    \cup {[kind |-> k, at |-> n] : k \in {"getPeer", "putPeer"}, n \in 1..Len(whitelist)}

\* The whitelist loop of Exec (lines 81-100) from entry k on: the store after
\* it and how Exec ends.
RECURSIVE WhitelistLoop(_, _, _, _)
WhitelistLoop(k, store, status, failure) ==
    IF k > Len(whitelist) THEN [kv |-> store, ret |-> "nil"]
    ELSE IF failure.kind = "getPeer" /\ failure.at = k
         \* the error is only logged; status.Int64() on the nil status panics
         THEN [kv |-> store, ret |-> "panic"]
    ELSE IF failure.kind = "putPeer" /\ failure.at = k
         THEN [kv |-> store, ret |-> "storing last time mined"]
    ELSE WhitelistLoop(
            k + 1,
            [store EXCEPT !.minerTimeOut[LowerHex(whitelist[k])] =
                              EncodeBig(status[LowerHex(whitelist[k])])],
            status, failure)

\* TimeOutTracker.Exec(ctx), lines 40-102. status is what the contract holds
\* for each address.
TimeOutExec ==
    /\ trackerRet.n < MaxExecs
    /\ \E status \in [LowerAddrs -> Statuses], failure \in ExecFailures :
         IF failure.kind = "getOwn" THEN
            /\ trackerRet' = [n |-> trackerRet.n + 1, ret |-> "getting dispute status"]
            /\ kv' = kv
         ELSE IF failure.kind = "putOwn" THEN
            /\ trackerRet' = [n |-> trackerRet.n + 1, ret |-> "storing dispute info"]
            /\ kv' = kv
         ELSE
            LET own == [kv EXCEPT !.timeOut = EncodeBig(status[LowerHex(PublicAddress)])]
                done == WhitelistLoop(1, own, status, failure)
            IN
            /\ kv' = done.kv
            /\ trackerRet' = [n |-> trackerRet.n + 1, ret |-> done.ret]
    /\ UNCHANGED <<manualData, whitelist, clock, handler, submitted, lastSubmit,
                   psr, disputeFiles, notHandler>>

-----------------------------------------------------------------------------
\* CheckValueAtTime. Floats are modelled by integers: confidences and the
\* dispute threshold in percent, the band scaled by 100.

\* The challenge hash the store holds as the current one.
CurrentChallenge == "c1"

\* cfg.DisputeThreshold, in percent.
DisputeThresholdPct == 5
\* The confidence, in percent, a sample point has to exceed.
MinConfidencePct == 80

\* The result for no datapoints: a nil *ValueCheckResult.
NoData == [nil |-> TRUE, Low |-> 0, High |-> 0, WithinRange |-> FALSE,
           Datapoints |-> <<>>]

RECURSIVE MinOf(_)
MinOf(dps) ==
    IF Len(dps) = 1 THEN dps[1]
    ELSE LET m == MinOf(Tail(dps)) IN IF dps[1] < m THEN dps[1] ELSE m

\* max starts at 0.0
RECURSIVE MaxOf(_)
MaxOf(dps) ==
    IF Len(dps) = 0 THEN 0
    ELSE LET m == MaxOf(Tail(dps)) IN IF dps[1] > m THEN dps[1] ELSE m

\* The sample points kept as datapoints (lines 54-61).
RECURSIVE Datapoints(_)
Datapoints(samples) ==
    IF Len(samples) = 0 THEN <<>>
    ELSE (IF samples[1].conf > MinConfidencePct THEN <<samples[1].fval>> ELSE <<>>)
         \o Datapoints(Tail(samples))

\* CheckValueAtTime(reqID, val, at), with the five sample points
\* PSRValueForTime returns around at.
CheckValueAtTime(samples, val) ==
    LET dps == Datapoints(samples) IN
    IF Len(dps) = 0 THEN NoData
    ELSE LET low == MinOf(dps) * (100 - DisputeThresholdPct)
             high == MaxOf(dps) * (100 + DisputeThresholdPct)
         IN [nil |-> FALSE, Low |-> low, High |-> high,
             WithinRange |-> (val * 100 > low) /\ (val * 100 < high),
             Datapoints |-> dps]

\* Five sample points with the same confidence.
Samples(fvals, conf) == [k \in 1..5 |-> [fval |-> fvals[k], conf |-> conf]]

\* The sample points of each request id around the time of a Submit: around
\* the stored number for ids 1, 2 and 54, none confident enough for id 53,
\* between 100 and 110 for id 60.
PsrSamples ==
    [id \in ReqIDSet |->
        CASE id = 53 -> Samples(<<530, 530, 530, 530, 530>>, MinConfidencePct)
          [] id = 60 -> Samples(<<100, 104, 110, 106, 102>>, 90)
          [] OTHER -> Samples(<<10 * id, 10 * id + 1, 10 * id, 10 * id - 1, 10 * id>>, 90)]

\* The stored value of a request id: absent, undecodable, or its number.
StoredValues(id) == {Absent, Garbage, EncodeBig(10 * id)}
WhitelistChoices == {<<>>, <<"0xCD", "0xAB">>}
ManualChoices ==
    {[id \in ReqIDSet |-> IF id \in withValue THEN id + 6 ELSE 0] :
        withValue \in SUBSET {1}}

\* The queried values Submit is run against: each request id's value is among
\* StoredValues (ids 1 and 53 are never undecodable, id 2 never absent, id 60
\* always there), and at most one request id is not stored as its number.
QueriedChoices ==
    {q \in [ReqIDSet -> {Absent, Garbage} \cup {EncodeBig(10 * id) : id \in ReqIDSet}] :
        /\ \A id \in ReqIDSet : q[id] \in StoredValues(id)
        /\ q[1] # Garbage
        /\ q[2] # Absent
        /\ q[53] # Garbage
        /\ q[60] = EncodeBig(600)
        /\ \A a, b \in ReqIDSet :
              (q[a] # EncodeBig(10 * a) /\ q[b] # EncodeBig(10 * b)) => a = b}
InitHandler ==
    /\ kv \in [timeOut : {Absent},
               minerTimeOut : {[a \in LowerAddrs |-> Absent]},
               queried : QueriedChoices,
               currentChallenge : {CurrentChallenge}]
    /\ manualData \in ManualChoices
    /\ whitelist \in WhitelistChoices
    /\ clock = 0
    /\ handler = [currentChallenge |-> "none", currentNonce |-> "none",
                  currentValues |-> NoValues]
    /\ submitted = [c \in Challenges |-> 0]
    /\ lastSubmit = [n |-> 0, challenge |-> "none", now |-> 0, lastS |-> Absent,
                     result |-> FALSE, reason |-> "none", prepared |-> NoTxn]
    /\ psr = PsrSamples
    /\ disputeFiles = 0
    /\ trackerRet = [n |-> 0, ret |-> "none"]
    /\ IdleBut("handler")

NextHandler == Submit \/ TimeOutExec

SpecHandler == InitHandler /\ [][NextHandler]_vars

\* Submit alone, against every combination of stored values: the time-out
\* entry is what the tracker stores for a status, every request id's value
\* is any of its StoredValues (ids 1 and 53 are never undecodable, id 60 is
\* always there).
ValueChoices ==
    {q \in [ReqIDSet -> {Absent, Garbage} \cup {EncodeBig(10 * id) : id \in ReqIDSet}] :
        /\ \A id \in ReqIDSet : q[id] \in StoredValues(id)
        /\ q[1] # Garbage
        /\ q[53] # Garbage
        /\ q[60] = EncodeBig(600)}

InitValues ==
    /\ kv \in [timeOut : {Absent},
               minerTimeOut : {[a \in LowerAddrs |->
                                  IF a = LowerHex(PublicAddress)
                                  THEN EncodeBig(st) ELSE Absent] : st \in Statuses},
               queried : ValueChoices,
               currentChallenge : {CurrentChallenge}]
    /\ manualData \in ManualChoices
    /\ whitelist = <<>>
    /\ clock = 0
    /\ handler = [currentChallenge |-> "none", currentNonce |-> "none",
                  currentValues |-> NoValues]
    /\ submitted = [c \in Challenges |-> 0]
    /\ lastSubmit = [n |-> 0, challenge |-> "none", now |-> 0, lastS |-> Absent,
                     result |-> FALSE, reason |-> "none", prepared |-> NoTxn]
    /\ psr = PsrSamples
    /\ disputeFiles = 0
    /\ trackerRet = [n |-> 0, ret |-> "none"]
    /\ IdleBut("handler")

NextValues == Submit

SpecValues == InitValues /\ [][NextValues]_vars

-----------------------------------------------------------------------------
\* The database file across runs of the process: AddDBToCtx, Put, Get.

StoreKeys == {"gas_price", "dispute_status", "time_out"}
StoreValues == {EncodeBig(1), EncodeBig(2)}
EmptyStore == [k \in StoreKeys |-> Absent]
\* No process: nothing in ctx.
NoHandle == [running |-> FALSE, open |-> FALSE, proxy |-> "none"]

\* AddDBToCtx(remote), lines 113-139. os.RemoveAll's error is dropped, so
\* the file may stay when the removal fails; a failing db.Open or proxy ends
\* the process.
AddDBToCtx ==
    /\ dbHandle.running /\ ~dbHandle.open
    /\ \E remote \in BOOLEAN, removed \in BOOLEAN, openOk \in BOOLEAN, proxyOk \in BOOLEAN :
         /\ dbFile' = IF removed THEN EmptyStore ELSE dbFile
         /\ dbHandle' =
              IF ~openOk \/ ~proxyOk THEN NoHandle
              ELSE [running |-> TRUE, open |-> TRUE,
                    proxy |-> IF remote THEN "remote" ELSE "local"]
    /\ UNCHANGED <<putLog, notStore>>

\* DB.Put(key, value) on the open database.
StorePut ==
    /\ dbHandle.open
    /\ \E k \in StoreKeys, v \in StoreValues :
         /\ dbFile' = [dbFile EXCEPT ![k] = v]
         /\ putLog' = [putLog EXCEPT ![k] = v]
    /\ UNCHANGED <<dbHandle, notStore>>

\* DB.Get(key) on the open database.
StoreGet(k) == dbFile[k]

\* The process ends; the file stays on disk.
ProcessExit ==
    /\ dbHandle.running
    /\ dbHandle' = NoHandle
    /\ UNCHANGED <<dbFile, putLog, notStore>>

\* The miner is started again.
ProcessStart ==
    /\ ~dbHandle.running
    /\ dbHandle' = [NoHandle EXCEPT !.running = TRUE]
    /\ UNCHANGED <<dbFile, putLog, notStore>>

InitStore ==
    /\ dbFile = EmptyStore
    /\ dbHandle = [NoHandle EXCEPT !.running = TRUE]
    /\ putLog = EmptyStore
    /\ IdleBut("store")

NextStore == AddDBToCtx \/ StorePut \/ ProcessExit \/ ProcessStart

SpecStore == InitStore /\ [][NextStore]_vars

-----------------------------------------------------------------------------
\* mineCmd from the kill signal on (lines 299-333).

\* Polls of the shutdown loop in one behaviour.
MaxPolls == 62
\* The number of polls after which the loop warns.
PollThreshold == 60

CmdComponents == {"ds", "miner"}
\* ds.Running, miner.Running
Running(st) == st \in {"running", "signalled"}

\* exitChannels: the data server's channel when it was started here, then
\* the miner's.
ExitChannels ==
    (IF components["ds"] = "nil" THEN <<>> ELSE <<"ds">>) \o <<"miner">>

\* <-c: the kill signal arrives.
KillSignal ==
    /\ cmdPc = "waitSig"
    /\ cmdPc' = "notify"
    /\ exitIdx' = 1
    /\ UNCHANGED <<cnt, components, notCmd>>

\* *ch <- os.Interrupt on an unbuffered channel: the send completes when
\* the component receives.
NotifyExit ==
    /\ cmdPc = "notify"
    /\ components[ExitChannels[exitIdx]] = "running"
    /\ components' = [components EXCEPT ![ExitChannels[exitIdx]] = "signalled"]
    /\ exitIdx' = exitIdx + 1
    /\ cmdPc' = IF exitIdx + 1 > Len(ExitChannels) THEN "poll" ELSE "notify"
    /\ UNCHANGED <<cnt, notCmd>>

\* A signalled component sets Running to false.
ComponentStops ==
    /\ \E c \in CmdComponents :
         /\ components[c] = "signalled"
         /\ components' = [components EXCEPT ![c] = "stopped"]
    /\ UNCHANGED <<cmdPc, exitIdx, cnt, notCmd>>

\* One iteration of the loop, lines 307-331.
PollOnce ==
    /\ cmdPc = "poll"
    /\ cnt < MaxPolls
    /\ cnt' = cnt + 1
    /\ LET dsStopped == IF components["ds"] # "nil"
                         THEN ~Running(components["ds"]) ELSE TRUE
           minerStopped == IF components["miner"] # "nil"
                            THEN ~Running(components["miner"]) ELSE TRUE
       IN cmdPc' = IF ~dsStopped /\ ~minerStopped /\ cnt + 1 > PollThreshold
                   THEN "poll"
                   ELSE IF dsStopped /\ minerStopped THEN "exited"
                   ELSE "poll"
    /\ UNCHANGED <<exitIdx, components, notCmd>>

InitCmd ==
    /\ cmdPc = "waitSig"
    /\ exitIdx = 0
    /\ cnt = 0
    /\ components \in [CmdComponents -> {"nil", "running"}]
    /\ components["miner"] = "running"
    /\ IdleBut("cmd")

NextCmd == KillSignal \/ NotifyExit \/ ComponentStops \/ PollOnce

SpecCmd == InitCmd /\ [][NextCmd]_vars

\* The miner takes the interrupt from its exit channel: the send of the
\* notify loop to the miner completes.
MinerReceives == NotifyExit /\ ExitChannels[exitIdx] = "miner"

\* The kill signal arrives, the miner receives from its exit channel once
\* the command sends to it, signalled components stop and the loop keeps
\* polling. Nothing is assumed of the data server's receive.
FairSpecCmd ==
    /\ SpecCmd
    /\ WF_vars(KillSignal) /\ WF_vars(MinerReceives)
    /\ WF_vars(ComponentStops) /\ WF_vars(PollOnce)

\* mineCmd from the start of the miner on (lines 281-297), then the
\* shutdown above.

\* What the store may hold under dispute_status.
StatusEntries == {Absent, Garbage, EncodeBig(0), EncodeBig(1), EncodeBig(3)}

\* The data server, when it runs here, is started and ready; the store is
\* open and holds what DisputeTracker left under dispute_status.
InitMine ==
    /\ cmdPc = "start"
    /\ exitIdx = 0
    /\ cnt = 0
    /\ components \in [CmdComponents -> {"nil", "running"}]
    /\ components["miner"] = "nil"
    /\ dbFile \in {[EmptyStore EXCEPT !["dispute_status"] = v] : v \in StatusEntries}
    /\ dbHandle = [running |-> TRUE, open |-> TRUE, proxy |-> "local"]
    /\ putLog = EmptyStore
    /\ TxnIdle /\ HandlerIdle /\ GroupIdle
    /\ valueCheck = <<>> /\ puzzle = <<>> /\ fetch = <<>> /\ volume = <<>>
    /\ tracker = <<>> /\ sampler = <<>> /\ checker = <<>> /\ gasTracker = <<>>
    /\ profit = <<>>

\* Lines 281-297: DB.Get(db.DisputeStatusKey), whose error is only logged
\* and leaves v empty; hexutil.DecodeBig, whose error is dropped and leaves
\* status nil; status.Cmp, a nil pointer dereference on a nil status; a
\* status other than 1 is logged; then the mining manager is created and
\* started.
MineStart ==
    /\ cmdPc = "start"
    /\ \E getOk \in BOOLEAN :
         LET v == IF getOk THEN StoreGet("dispute_status") ELSE Absent
         IN IF ~DecodeBigOk(v)
            THEN cmdPc' = "panicked" /\ components' = components
            ELSE /\ cmdPc' = "waitSig"
                 /\ components' = [components EXCEPT !["miner"] = "running"]
    /\ UNCHANGED <<exitIdx, cnt, notCmd>>

SpecMine == InitMine /\ [][MineStart \/ NextCmd]_vars

-----------------------------------------------------------------------------
\* MiningGroup.Mine(input, output) with its hashers.

\* Works sent on the input channel in one behaviour.
MaxWorks == 3
\* Dispatch rounds of one Work.
MaxRounds == 2

Hashers == {"cpu0", "cpu1"}
WorkIDs == 1 .. MaxWorks
\* The nil Result written when the group closes.
NilResult == [work |-> 0, latest |-> 0]

AllHashers(st) == [h \in Hashers |-> st]
\* Cancel the hashers that are still computing.
CancelBusy(hs) == [h \in Hashers |-> IF hs[h] = "busy" THEN "cancelled" ELSE hs[h]]
Emitted(w) == \E n \in 1 .. Len(output) : output[n].work = w
\* The Works read so far that have no Result yet lose theirs.
Cancelled == {<<w, pending>> : w \in {x \in 1 .. accepted : ~Emitted(x)}}
Listening == groupPc \in {"idle", "mining", "draining"} /\ pending # "close"

\* What follows the drain once a new Work has preempted the current one.
PreemptPending_Keep(p) == p
PreemptPending(p) == "dispatch"

\* What follows the drain once a cancelled hasher has returned.
StaleReturn_Wins(p) == "emit"
StaleReturn(p) == p

\* The state of the group after the nil Result.
AfterNil_Open == "idle"
AfterNil == "closed"

\* input <- &Work{...}: an idle group dispatches; a group with Work in flight
\* cancels it and takes the new Work after the drain.
ReceiveWork ==
    /\ Listening
    /\ accepted < MaxWorks
    /\ accepted' = accepted + 1
    /\ IF groupPc = "idle"
       THEN /\ work' = accepted + 1
            /\ hashers' = AllHashers("busy")
            /\ groupPc' = "mining"
            /\ round' = 1
            /\ UNCHANGED <<pending, preempted>>
       ELSE /\ preempted' = preempted \cup Cancelled
            /\ hashers' = CancelBusy(hashers)
            /\ groupPc' = "draining"
            /\ pending' = PreemptPending(pending)
            /\ UNCHANGED <<work, round>>
    /\ UNCHANGED <<winner, output, nilSent, notGroup>>

\* input <- nil: cancel what is in flight and close after the drain.
ReceiveNil ==
    /\ Listening
    /\ nilSent' = TRUE
    /\ preempted' = preempted \cup Cancelled
    /\ hashers' = CancelBusy(hashers)
    /\ groupPc' = "draining"
    /\ pending' = "close"
    /\ UNCHANGED <<work, accepted, winner, round, output, notGroup>>

\* CheckRange returns to the group: with a nonce (this hasher wins, the rest
\* are cancelled) or with its range exhausted (when all are, a fresh round).
HasherReturns ==
    /\ groupPc = "mining"
    /\ \E h \in Hashers, found \in BOOLEAN :
         /\ hashers[h] = "busy"
         /\ IF found
            THEN /\ winner' = work
                 /\ hashers' = CancelBusy([hashers EXCEPT ![h] = "idle"])
                 /\ groupPc' = "draining"
                 /\ pending' = "emit"
                 /\ UNCHANGED round
            ELSE /\ round < MaxRounds
                 /\ IF \A o \in Hashers \ {h} : hashers[o] = "exhausted"
                    THEN /\ hashers' = AllHashers("busy")
                         /\ round' = round + 1
                    ELSE /\ hashers' = [hashers EXCEPT ![h] = "exhausted"]
                         /\ UNCHANGED round
                 /\ UNCHANGED <<winner, groupPc, pending>>
    /\ UNCHANGED <<work, accepted, output, nilSent, preempted, notGroup>>

\* A cancelled hasher returns; whatever it returns is dropped.
HasherStops ==
    /\ \E h \in Hashers :
         /\ hashers[h] = "cancelled"
         /\ hashers' = [hashers EXCEPT ![h] = "idle"]
    /\ pending' = StaleReturn(pending)
    /\ winner' = IF StaleReturn(pending) = pending THEN winner ELSE work
    /\ UNCHANGED <<groupPc, work, accepted, round, output, nilSent, preempted, notGroup>>

\* Every hasher has returned: write the Result, dispatch the new Work, or
\* write the nil Result and close.
DrainDone ==
    /\ groupPc = "draining"
    /\ \A h \in Hashers : hashers[h] \notin {"busy", "cancelled"}
    /\ pending # "none"
    /\ pending' = "none"
    /\ IF pending = "emit"
       THEN /\ output' = Append(output, [work |-> winner, latest |-> accepted])
            /\ groupPc' = "idle"
            /\ work' = 0
            /\ hashers' = AllHashers("idle")
            /\ UNCHANGED round
       ELSE IF pending = "dispatch"
       THEN /\ work' = accepted
            /\ hashers' = AllHashers("busy")
            /\ groupPc' = "mining"
            /\ round' = 1
            /\ UNCHANGED output
       ELSE /\ output' = Append(output, NilResult)
            /\ groupPc' = AfterNil
            /\ work' = 0
            /\ hashers' = AllHashers("idle")
            /\ UNCHANGED round
    /\ UNCHANGED <<accepted, winner, nilSent, preempted, notGroup>>

\* NewMiningGroup(hashers); go group.Mine(input, output)
InitGroup ==
    /\ groupPc = "idle"
    /\ work = 0
    /\ accepted = 0
    /\ pending = "none"
    /\ winner = 0
    /\ hashers = AllHashers("idle")
    /\ round = 0
    /\ output = <<>>
    /\ nilSent = FALSE
    /\ preempted = {}
    /\ IdleBut("group")

NextGroup == ReceiveWork \/ ReceiveNil \/ HasherReturns \/ HasherStops \/ DrainDone

SpecGroup == InitGroup /\ [][NextGroup]_vars

\* Cancelled hashers stop promptly and the group's loop keeps running.
FairSpecGroup == SpecGroup /\ WF_vars(HasherStops) /\ WF_vars(DrainDone)

-----------------------------------------------------------------------------
\* CheckValueAtTime on its own: any confidences, values around the bounds.

\* The confidences of the sample points are below, at and above 0.8; the
\* values PSRValueForTime returns lie between 0 and 120; the submitted values
\* are around the bounds for datapoints 100 .. 120 (95 and 126).
InitCheck ==
    /\ LET Confidences == {MinConfidencePct - 10, MinConfidencePct, MinConfidencePct + 10}
           FvalChoices == {<<0, 0, 0, 0, 0>>, <<100, 100, 100, 100, 100>>,
                           <<100, 105, 110, 115, 120>>, <<120, 100, 0, 110, 100>>}
           CheckVals == {0, 94, 95, 96, 126, 127}
       IN \E f \in FvalChoices, c \in [1 .. 5 -> Confidences], v \in CheckVals :
            valueCheck = [samples |-> [k \in 1 .. 5 |-> [fval |-> f[k], conf |-> c[k]]],
                          val |-> v, done |-> FALSE, res |-> NoData]
    /\ IdleBut("valueCheck")

\* result := CheckValueAtTime(reqID, nonceSubmit.Value, blockTime)
CheckValue ==
    /\ ~valueCheck.done
    /\ valueCheck' = [valueCheck EXCEPT
                        !.done = TRUE,
                        !.res = CheckValueAtTime(valueCheck.samples, valueCheck.val)]
    /\ UNCHANGED <<oldVars, puzzle, fetch, volume, tracker, sampler, checker, gasTracker, profit>>

SpecCheck == InitCheck /\ [][CheckValue]_vars

-----------------------------------------------------------------------------
\* The puzzle: a hasher tests the nonces of its range against the challenge.
\* Byte strings are sequences of numbers 0 .. 255; hex strings and nonces are
\* sequences of one-character strings.

\* Nonces in the range of a Work.
MaxRange == 12

\* decodeHex: two hex digits per byte.
decodeHex(str) ==
    [k \in 1 .. (Len(str) \div 2) |->
        16 * HexDigitVal(str[2 * k - 1]) + HexDigitVal(str[2 * k])]

\* fmt.Sprintf("%x", bytes): two lower-case hex digits per byte.
RECURSIVE SprintfX(_)
SprintfX(bytes) ==
    IF Len(bytes) = 0 THEN <<>>
    ELSE <<HexChars[(bytes[1] \div 16) + 1], HexChars[(bytes[1] % 16) + 1]>>
         \o SprintfX(Tail(bytes))

\* fmt.Sprintf("%d", n) for n >= 0.
RECURSIVE SprintfD(_)
SprintfD(n) ==
    IF n < 10 THEN <<HexChars[n + 1]>>
    ELSE SprintfD(n \div 10) \o <<HexChars[(n % 10) + 1]>>

\* []byte(nonce): the ASCII codes of the decimal digits.
AsciiBytes(digits) == [k \in 1 .. Len(digits) |-> 48 + HexDigitVal(digits[k])]

\* hashFn stands for the configured hash: a deterministic function of the
\* bytes, here a polynomial over them.
RECURSIVE hashFn(_)
hashFn(bytes) ==
    IF Len(bytes) = 0 THEN 7
    ELSE (hashFn(SubSeq(bytes, 1, Len(bytes) - 1)) * 31 + bytes[Len(bytes)]) % 65521

HasherInput_NoAddress(challenge, addr, n) ==
    decodeHex(SprintfX(challenge) \o SprintfX(AsciiBytes(SprintfD(n))))

\* The bytes a hasher hashes for nonce n: the hex of the challenge, the
\* miner address and the hex of the decimal nonce, decoded as one hex string.
HasherInput(challenge, addr, n) ==
    decodeHex(SprintfX(challenge) \o addr \o SprintfX(AsciiBytes(SprintfD(n))))

\* createChallenge(id, diff) and the Work made of it: ids padded to the
\* challenge length, the miner address of the configuration.
InitPuzzle ==
    /\ \E c \in {<<0, 19>>, <<0, 133>>, <<1, 186>>, <<4, 207>>},
          d \in {1, 2, 7, 100}, st \in {0, 95} :
         puzzle = [challenge |-> c, difficulty |-> d, addr |-> <<"a", "b", "c", "d">>,
                   next |-> st, end |-> st + MaxRange, pc |-> "mining", nonce |-> <<>>]
    /\ IdleBut("puzzle")

\* CheckRange, one nonce per step: the first nonce of the range whose hash
\* is a multiple of the difficulty becomes the Result; a range without one
\* is exhausted.
CheckRange ==
    /\ puzzle.pc = "mining"
    /\ puzzle' =
         IF puzzle.next >= puzzle.end THEN [puzzle EXCEPT !.pc = "exhausted"]
         ELSE IF hashFn(HasherInput(puzzle.challenge, puzzle.addr, puzzle.next))
                   % puzzle.difficulty = 0
         THEN [puzzle EXCEPT !.pc = "found", !.nonce = SprintfD(puzzle.next)]
         ELSE [puzzle EXCEPT !.next = puzzle.next + 1]
    /\ UNCHANGED <<oldVars, valueCheck, fetch, volume, tracker, sampler, checker, gasTracker, profit>>

SpecPuzzle == InitPuzzle /\ [][CheckRange]_vars

-----------------------------------------------------------------------------
\* web.Fetch(ctx, url) and web.Get(ctx, url, headers): the same loop, Get
\* after building its request.

FetchAttempts_OneMore == 5 + 1

\* for i := 0; i < 5; i++
FetchAttempts == 5

FetchReturn(data, err) ==
    fetch' = [fetch EXCEPT !.pc = "returned", !.data = data, !.err = err]

InitFetch ==
    /\ \E kind \in {"Fetch", "Get"} :
         fetch = [kind |-> kind, pc |-> IF kind = "Get" THEN "start" ELSE "loop",
                  i |-> 0, errFinal |-> "nil", attempts |-> <<>>,
                  data |-> <<>>, err |-> "nil", cancelled |-> FALSE]
    /\ IdleBut("fetch")

\* Get, lines 23-26: http.NewRequest.
NewRequest ==
    /\ fetch.pc = "start"
    /\ \/ fetch' = [fetch EXCEPT !.pc = "loop"]
       \/ FetchReturn(<<>>, "new request")
    /\ UNCHANGED <<oldVars, valueCheck, puzzle, volume, tracker, sampler, checker, gasTracker, profit>>

\* One request of the loop: the connection fails, reading the body fails,
\* or a status arrives with a body; a status outside 2xx is a failure too.
FetchAttempt ==
    /\ fetch.pc = "loop"
    /\ fetch.i < FetchAttempts
    /\ \E out \in {[fail |-> "fetching data", status |-> 0],
                    [fail |-> "read response body", status |-> 200],
                    [fail |-> "nil", status |-> 199],
                    [fail |-> "nil", status |-> 200],
                    [fail |-> "nil", status |-> 299],
                    [fail |-> "nil", status |-> 300],
                    [fail |-> "nil", status |-> 404]} :
         LET n == Len(fetch.attempts) + 1
             try == [fetch EXCEPT !.attempts = Append(@, out)]
         IN IF out.fail # "nil"
            THEN fetch' = [try EXCEPT !.errFinal = <<out.fail, n>>, !.pc = "wait"]
            ELSE IF out.status \div 100 # 2
            THEN fetch' = [try EXCEPT !.errFinal = <<"response status code not OK", n>>,
                                      !.pc = "wait"]
            ELSE fetch' = [try EXCEPT !.pc = "returned", !.data = <<"body", n>>,
                                      !.err = "nil"]
    /\ UNCHANGED <<oldVars, valueCheck, puzzle, volume, tracker, sampler, checker, gasTracker, profit>>

\* case <-ticker.C: continue, and the return after the loop. The ticker
\* runs from the start of the call, so a tick can be waiting in its channel
\* when the select is reached; with ctx.Done() ready as well the select
\* takes either case.
FetchTick ==
    /\ fetch.pc = "wait"
    /\ IF fetch.i + 1 < FetchAttempts
       THEN fetch' = [fetch EXCEPT !.i = @ + 1, !.pc = "loop"]
       ELSE fetch' = [fetch EXCEPT !.i = @ + 1, !.pc = "returned", !.data = <<>>,
                                   !.err = fetch.errFinal]
    /\ UNCHANGED <<oldVars, valueCheck, puzzle, volume, tracker, sampler, checker, gasTracker, profit>>

\* The caller's context is cancelled, before the call or at any point of
\* it. client.Get(url) and client.Do(req) carry no context, so nothing but
\* the select of a failed attempt looks at it.
FetchCtxCancel ==
    /\ fetch.pc # "returned"
    /\ ~fetch.cancelled
    /\ fetch' = [fetch EXCEPT !.cancelled = TRUE]
    /\ UNCHANGED <<oldVars, valueCheck, puzzle, volume, tracker, sampler, checker, gasTracker, profit>>

\* case <-ctx.Done(): return nil, ctx.Err()
FetchCtxDone ==
    /\ fetch.pc = "wait"
    /\ fetch.cancelled
    /\ FetchReturn(<<>>, "context canceled")
    /\ UNCHANGED <<oldVars, valueCheck, puzzle, volume, tracker, sampler, checker, gasTracker, profit>>

SpecFetch ==
    InitFetch /\ [][NewRequest \/ FetchAttempt \/ FetchTick \/ FetchCtxCancel
                       \/ FetchCtxDone]_vars

-----------------------------------------------------------------------------
\* JSONapiVolume.Get. Times are numbers; 0 is the zero time.Time, the
\* timestamps of a source are positive.

\* Gets of one source in one behaviour.
MaxGets == 4

SameTime_NotAfter(last, ts) == ts <= last

\* self.lastTS.Equal(ts)
SameTime(last, ts) == last = ts

\* NewJSONapiVolume: lastTS is the zero time.
InitVolume ==
    /\ volume = [lastTS |-> 0, fetched |-> <<>>, val |-> 0, err |-> "nil"]
    /\ IdleBut("volume")

\* Get(ctx): web.Fetch fails, Parse fails, or Parse gives a value and the
\* timestamp of the source.
VolumeGet ==
    /\ Len(volume.fetched) < MaxGets
    /\ \E got \in [fail : {"fetching data", "parsing data"}, val : {0}, ts : {0}]
                  \cup [fail : {"nil"}, val : {0, 5, 7}, ts : {1, 2, 3}] :
         volume' =
            IF got.fail # "nil"
            THEN [volume EXCEPT !.fetched = Append(@, got), !.val = 0, !.err = got.fail]
            ELSE [lastTS |-> got.ts,
                  fetched |-> Append(volume.fetched, got),
                  val |-> IF SameTime(volume.lastTS, got.ts) THEN 0 ELSE got.val,
                  err |-> "nil"]
    /\ UNCHANGED <<oldVars, valueCheck, puzzle, fetch, tracker, sampler, checker, gasTracker, profit>>

SpecVolume == InitVolume /\ [][VolumeGet]_vars

-----------------------------------------------------------------------------
\* The trackers that copy one value of the chain into the store:
\* DisputeTracker (dispute_status), TimeOutTracker (time_out), and the tribute
\* balance and current request id trackers.

\* Execs of one tracker in one behaviour.
MaxCycles == 3

InitTracker ==
    /\ \E kind \in {"dispute", "timeOut", "tribute", "requestID"} :
         tracker = [kind |-> kind, stored |-> Absent, execs |-> <<>>, crashed |-> FALSE]
    /\ IdleBut("tracker")

\* How Exec ends once the value is stored under the tracker's key: the loop
\* over cfg.ServerWhitelist of the dispute and time-out trackers. A failed
\* read of a whitelisted miner leaves a nil status that is then dereferenced;
\* a failed Put is logged by the dispute tracker and returned by the time-out
\* tracker, which also returns an address it cannot decode.
AfterOwnPut(kind, wl) ==
    IF kind \notin {"dispute", "timeOut"} \/ wl = "ok" THEN "nil"
    ELSE IF wl = "get" THEN "panic"
    ELSE IF kind = "dispute" THEN "nil"
    ELSE IF wl = "put" THEN "storing last time mined"
    ELSE "decoding address"

\* One Exec: the contract instance, the read of the chain, the Put under
\* the tracker's key, the whitelist.
TrackerExec ==
    /\ ~tracker.crashed
    /\ Len(tracker.execs) < MaxCycles
    /\ \E poll \in [chain : {"instance", "read"}, value : {0}, put : {FALSE}, wl : {"ok"}]
                   \cup [chain : {"ok"}, value : {0, 255, 1000}, put : {FALSE}, wl : {"ok"}]
                   \cup [chain : {"ok"}, value : {0, 255, 1000}, put : {TRUE},
                         wl : {"ok", "get", "put", "decode"}] :
         LET err == IF poll.chain # "ok" THEN poll.chain
                    ELSE IF ~poll.put THEN "storing"
                    ELSE AfterOwnPut(tracker.kind, poll.wl)
         IN tracker' = [kind |-> tracker.kind,
                        stored |-> IF poll.chain = "ok" /\ poll.put
                                   THEN EncodeBig(poll.value) ELSE tracker.stored,
                        execs |-> Append(tracker.execs, [poll |-> poll, ret |-> err]),
                        crashed |-> err = "panic"]
    /\ UNCHANGED <<oldVars, valueCheck, puzzle, fetch, volume, sampler, checker, gasTracker, profit>>

SpecTracker == InitTracker /\ [][TrackerExec]_vars

-----------------------------------------------------------------------------
\* IndexTracker.record(delay, symbol, interval, dataSource): the sampler of
\* one source.

\* Iterations of the loop in one behaviour.
MaxTicks == 4

RecordsValue_UnlessGetFails(out) == out \in {"ok", "value append", "value commit"}

\* The iteration appends and commits its value sample.
RecordsValue(out) == out = "ok"

\* What stops an iteration, in the order of the code; "ok" when nothing does.
TickOutcomes == <<"url parse", "interval append", "interval commit", "get",
                  "value append", "value commit", "ok">>

InitSampler ==
    /\ sampler = [pc |-> "tick", now |-> 1, intervals |-> <<>>, values |-> <<>>,
                  getErrors |-> 0, ticks |-> <<>>]
    /\ IdleBut("sampler")

\* One iteration up to its select: the interval sample, dataSource.Get, the
\* value sample.
SamplerTick ==
    /\ sampler.pc = "tick"
    /\ Len(sampler.ticks) < MaxTicks
    /\ \E k \in 1 .. Len(TickOutcomes), value \in {0, 5} :
         LET out == TickOutcomes[k] IN
         sampler' = [pc |-> "select",
                     now |-> sampler.now,
                     intervals |-> IF k > 3 THEN Append(sampler.intervals, sampler.now)
                                   ELSE sampler.intervals,
                     values |-> IF RecordsValue(out)
                                THEN Append(sampler.values,
                                            [ts |-> sampler.now, value |-> value])
                                ELSE sampler.values,
                     getErrors |-> IF out = "get" THEN sampler.getErrors + 1
                                   ELSE sampler.getErrors,
                     ticks |-> Append(sampler.ticks, out)]
    /\ UNCHANGED <<oldVars, valueCheck, puzzle, fetch, volume, tracker, checker, gasTracker, profit>>

\* case <-ticker.C: continue
SamplerContinue ==
    /\ sampler.pc = "select"
    /\ sampler' = [sampler EXCEPT !.pc = "tick", !.now = @ + 1]
    /\ UNCHANGED <<oldVars, valueCheck, puzzle, fetch, volume, tracker, checker, gasTracker, profit>>

\* case <-self.ctx.Done(): return
SamplerCtxDone ==
    /\ sampler.pc = "select"
    /\ sampler' = [sampler EXCEPT !.pc = "exited"]
    /\ UNCHANGED <<oldVars, valueCheck, puzzle, fetch, volume, tracker, checker, gasTracker, profit>>

SpecSampler == InitSampler /\ [][SamplerTick \/ SamplerContinue \/ SamplerCtxDone]_vars

-----------------------------------------------------------------------------
\* disputeChecker.Exec. Block numbers are uint64 in the program; the model
\* keeps the unsigned, wrapping arithmetic and narrows the width, so that
\* numbers live in 0 .. UintMod - 1.

\* The modulus of the unsigned block numbers (2^64 in the program).
UintMod == 1024
\* Exec calls in one behaviour.
MaxChecks == 4

\* const blockDelay = 100
blockDelay == 100

\* a - b on unsigned numbers.
USub(a, b) == (a - b + UintMod) % UintMod

\* The head block numbers client.HeaderByNumber(ctx, nil) may report.
Heads == {50, 200, 299, 300, 400, 500}

\* toCheck-c.lastCheckedBlock < blockDelay
TooClose(toCheck, last) == USub(toCheck, last) < blockDelay

\* &disputeChecker{}: lastCheckedBlock is 0.
InitChecker ==
    /\ checker = [lastCheckedBlock |-> 0, n |-> 0, head |-> 0, first |-> 0,
                  growing |-> TRUE, scans |-> <<>>, ret |-> "none"]
    /\ IdleBut("checker")

\* Exec(ctx, logger), lines 96-183. The head is read; a head fewer than
\* blockDelay past lastCheckedBlock ends the call; otherwise the logs of
\* FromBlock = lastCheckedBlock to ToBlock = head - blockDelay (both
\* inclusive) are fetched and checked one by one (CheckValueAtTime and the
\* possible-dispute file), and lastCheckedBlock moves to ToBlock. A failing
\* HeaderByNumber, FilterLogs, UnpackLog or block header read returns an
\* error and leaves lastCheckedBlock where it is.
CheckerExec ==
    /\ checker.n < MaxChecks
    /\ \E headOk \in BOOLEAN, head \in Heads,
          scan \in {"ok", "failed to filter eth logs", "failed to unpack into object"} :
         LET last0 == IF checker.lastCheckedBlock = 0 THEN head
                      ELSE checker.lastCheckedBlock
             checkUntil == USub(head, blockDelay)
             seen == [checker EXCEPT
                        !.n = @ + 1,
                        !.head = head,
                        !.lastCheckedBlock = last0,
                        !.first = IF checker.lastCheckedBlock = 0 THEN last0 ELSE @,
                        !.growing = @ /\ head >= checker.head]
         IN checker' =
              IF ~headOk
              THEN [checker EXCEPT !.n = @ + 1,
                                   !.ret = "failed to get latest eth block header"]
              ELSE IF TooClose(head, last0)
              THEN [seen EXCEPT !.ret = "nil"]
              ELSE IF scan = "failed to filter eth logs"
              THEN [seen EXCEPT !.ret = scan]
              ELSE IF scan = "failed to unpack into object"
              THEN [seen EXCEPT
                      !.scans = Append(@, [from |-> last0, to |-> checkUntil,
                                           ok |-> FALSE]),
                      !.ret = scan]
              ELSE [seen EXCEPT
                      !.scans = Append(@, [from |-> last0, to |-> checkUntil,
                                           ok |-> TRUE]),
                      !.lastCheckedBlock = checkUntil,
                      !.ret = "nil"]
    /\ UNCHANGED <<oldVars, valueCheck, puzzle, fetch, volume, tracker, sampler,
                   gasTracker, profit>>

SpecChecker == InitChecker /\ [][CheckerExec]_vars

-----------------------------------------------------------------------------
\* GasTracker.Exec against the gas_price entry of the store.

\* Exec calls in one behaviour.
MaxGasExecs == 3

\* gpModel.Fast as ETHGasStation reports it (ten times the price in gwei).
FastPrices == {0, 95, 1000}

\* big.NewInt(int64(gpModel.Fast / 10)) times common.GWEI.
FastPrice(fast) == (fast \div 10) * GWEI

\* The price of one Exec, lines 56-87: on mainnet (network 1) the gas
\* station's fast price, and the client's suggestion when the fetch or the
\* parse fails; on other networks the client's suggestion. A failed
\* SuggestGasPrice is logged and leaves a nil gasPrice.
GasPriceOf(netID, fetchOk, parseOk, fast, suggest) ==
    IF netID = 1 /\ fetchOk /\ parseOk THEN FastPrice(fast)
    ELSE IF suggest = SuggestErr THEN Nil
    ELSE suggest

InitGasTracker ==
    /\ \E stored \in {Absent, EncodeBig(7)} :
         gasTracker = [stored |-> stored, n |-> 0, pc |-> "idle", netID |-> 0,
                       price |-> Nil, ret |-> "none"]
    /\ IdleBut("gasTracker")

\* Exec(ctx), lines 49-91. hexutil.EncodeBig calls Sign on its argument: a
\* nil gasPrice is a nil pointer dereference.
GasExec ==
    /\ gasTracker.pc = "idle"
    /\ gasTracker.n < MaxGasExecs
    /\ \E netOk \in BOOLEAN, netID \in {1, 4}, fetchOk \in BOOLEAN, parseOk \in BOOLEAN,
          fast \in FastPrices, suggest \in SuggestResults, putOk \in BOOLEAN :
         LET price == GasPriceOf(netID, fetchOk, parseOk, fast, suggest)
             ran == [gasTracker EXCEPT !.n = @ + 1, !.netID = netID, !.price = price]
         IN gasTracker' =
              IF ~netOk
              THEN [gasTracker EXCEPT !.n = @ + 1, !.netID = 0, !.price = Nil,
                                      !.ret = "network id"]
              ELSE IF price = Nil THEN [ran EXCEPT !.pc = "panicked", !.ret = "none"]
              ELSE IF ~putOk THEN [ran EXCEPT !.ret = "put"]
              ELSE [ran EXCEPT !.stored = EncodeBig(price), !.ret = "nil"]
    /\ UNCHANGED <<oldVars, valueCheck, puzzle, fetch, volume, tracker, sampler,
                   checker, profit>>

SpecGasTracker == InitGasTracker /\ [][GasExec]_vars

-----------------------------------------------------------------------------
\* ProfitChecker.setProfitWhenConfirmed with waitMined, for one Transferred
\* event.

\* Receipt queries of one waitMined before its 10 minutes are over.
MaxReceiptPolls == 3

\* priceTRB := big.NewInt(215510)
TRBPrice == 215510
\* The granularity of the TRB/ETH request, narrowed.
TRBGranularity == 1000

\* convertTRBtoETH(trb): priceTRB * (WEI / granularity) * trb / 1e18.
convertTRBtoETH(trb) == (TRBPrice * trb) \div TRBGranularity

InitProfit ==
    /\ \E removed \in BOOLEAN, value \in {0, 1000, 5000} :
         profit = [pc |-> "start", removed |-> removed, value |-> value,
                   polls |-> <<>>, receipt |-> "nil", err |-> "nil", added |-> 0]
    /\ IdleBut("profit")

\* Lines 300-317, after waitMined has returned (receipt, err):
\* receipt.Status is read first, a nil pointer dereference on a nil
\* receipt; then err is looked at; then the value is converted and added.
AfterWaitMined(receipt, err) ==
    LET got == [profit EXCEPT !.receipt = receipt, !.err = err]
    IN IF receipt = "nil" THEN [got EXCEPT !.pc = "panicked"]
       ELSE IF receipt # "successful" THEN [got EXCEPT !.pc = "returned"]
       ELSE IF err # "nil" THEN [got EXCEPT !.pc = "returned"]
       ELSE [got EXCEPT !.pc = "returned", !.added = convertTRBtoETH(profit.value)]

\* Lines 296-299: a removed event is ignored, the others wait.
ProfitEvent ==
    /\ profit.pc = "start"
    /\ profit' = [profit EXCEPT !.pc = IF profit.removed THEN "returned" ELSE "query"]
    /\ UNCHANGED <<oldVars, valueCheck, puzzle, fetch, volume, tracker, sampler,
                   checker, gasTracker>>

\* waitMined, lines 326-337: one TransactionReceipt. A receipt, successful
\* or not, ends the wait with a nil error; an error or a transaction that
\* is not mined yet goes to the select.
ReceiptQuery ==
    /\ profit.pc = "query"
    /\ \E out \in {"successful", "failed", "retrieval failed", "not yet mined"} :
         profit' =
            IF out \in {"successful", "failed"} THEN AfterWaitMined(out, "nil")
            ELSE [profit EXCEPT !.pc = "wait", !.polls = Append(@, out)]
    /\ UNCHANGED <<oldVars, valueCheck, puzzle, fetch, volume, tracker, sampler,
                   checker, gasTracker>>

\* case <-queryTicker.C
ReceiptTick ==
    /\ profit.pc = "wait"
    /\ Len(profit.polls) < MaxReceiptPolls
    /\ profit' = [profit EXCEPT !.pc = "query"]
    /\ UNCHANGED <<oldVars, valueCheck, puzzle, fetch, volume, tracker, sampler,
                   checker, gasTracker>>

\* case <-ctx.Done(): the 10 minutes are over or the checker's context is
\* cancelled; waitMined returns (nil, ctx.Err()).
ReceiptCtxDone ==
    /\ profit.pc = "wait"
    /\ \E why \in {"deadline exceeded", "context canceled"} :
         profit' = AfterWaitMined("nil", why)
    /\ UNCHANGED <<oldVars, valueCheck, puzzle, fetch, volume, tracker, sampler,
                   checker, gasTracker>>

SpecProfit ==
    InitProfit /\ [][ProfitEvent \/ ReceiptQuery \/ ReceiptTick \/ ReceiptCtxDone]_vars

-----------------------------------------------------------------------------
\* Properties of SubmitContractTxn (checked under SpecTxn).

Min(a, b) == IF a < b THEN a ELSE b

\* C1: after a callback failure with "nonce too low", the next invocation of
\* the callback uses the failed invocation's nonce plus one; with that failure
\* on attempt 0 and success on attempt 1 the second call uses n+1, n being the
\* nonce fetched at entry.
Thm_C1 ==
    /\ [][(calls' = calls + 1 /\ calls > 0 /\ lastCall.err = "nonceTooLow")
            => lastCall'.nonce = lastCall.nonce + 1]_vars
    /\ []((calls = 2 /\ lastCall.i = 1 /\ nLow = 1 /\ lastCall.err = NilErr)
            => lastCall.nonce = chainNonce + 1)

\* "nonce too low" on attempt 0, success on attempt 1, second call at n+1.
Witness_C1 ==
    /\ txPc = "returned" /\ ret.tx
    /\ calls = 2 /\ lastCall.i = 1 /\ nLow = 1
    /\ lastCall.nonce = chainNonce + 1

\* C2 as stated: one call invokes the callback at least once and at most
\* five times.
Orig_C2 ==
    /\ calls <= 5
    /\ (txPc = "returned" => calls >= 1)

\* C2 amended: one call invokes the callback at most six times, once per
\* attempt i = 0..5, and never more often than attempts were started.
Thm_C2 ==
    /\ calls <= 6
    /\ (txPc \in {"loop", "sleep", "returned"} => calls <= i + 1)

\* All six attempts invoked the callback and failed.
Witness_C2 == txPc = "returned" /\ calls = 6 /\ ~ret.tx

\* C3 as stated: an attempt that finds the balance below the cost ends the
\* call with the insufficient-funds error: no later attempt, no later
\* invocation of the callback, no change of the nonce.
Claim_C3 ==
    [][(txPc = "loop" /\ i' = i + 1 /\ finalError' = "insufficient funds")
        => (/\ txPc' = "returned"
            /\ ret'.cause = "insufficient funds"
            /\ ~ret'.tx
            /\ IntNonce' = IntNonce)]_vars

\* C4 as stated: a return without a transaction carries a non-nil error.
Claim_C4 == (txPc = "returned" /\ ~ret.tx) => ret.err # NilErr

\* The step of the third attempt (i = 2) after attempts 0 and 1 both invoked
\* the callback and attempt 1 failed with "replacement transaction
\* underpriced".
ThirdAfterUnderpriced ==
    /\ calls = 2 /\ lastCall.i = 1 /\ lastCall.err = "underpriced"
    /\ calls' = 3 /\ lastCall'.i = 2

\* C5 as stated: that third attempt's gas price is at least base * 1.22 and
\* at most gasMax gwei, base being the first attempt's gas price.
Orig_C5 ==
    [][ThirdAfterUnderpriced
        => (/\ lastCall'.gasPrice * 100 >= firstPrice * 122
            /\ lastCall'.gasPrice <= cfgGasMax * GWEI)]_vars

\* C5 amended: that third attempt's gas price is
\* min(base + floor(base * 22 / 100), maxGasPrice), with maxGasPrice being
\* gasMax gwei when gasMax > 0 and 100 gwei otherwise.
Thm_C5 ==
    [][ThirdAfterUnderpriced
        => lastCall'.gasPrice =
             Min(firstPrice + ((firstPrice * 22) \div 100),
                 IF cfgGasMax > 0 THEN cfgGasMax * GWEI ELSE 100 * GWEI)]_vars

\* Attempts 0, 1, 2 invoked the callback, attempt 1 failed as underpriced
\* (attempt 2 failed with "nonce too low", which leaves finalError alone), and
\* the third price is a real bump of the first.
Witness_C5 ==
    /\ calls = 3 /\ lastCall.i = 2
    /\ lastCall.err = "nonceTooLow" /\ nLow = 1
    /\ finalError = "underpriced"
    /\ lastCall.gasPrice > firstPrice

\* C6: with gasMax > 0 every invocation of the callback carries a gas price
\* of at most gasMax gwei.
Thm_C6 == (calls > 0 /\ cfgGasMax > 0) => lastCall.gasPrice <= cfgGasMax * GWEI

\* A bumped attempt whose price was cut down to the maximum.
Witness_C6 ==
    /\ calls > 0 /\ cfgGasMax > 0 /\ lastCall.i >= 2
    /\ gasPrice < cfgGasMax * GWEI
    /\ lastCall.gasPrice = cfgGasMax * GWEI

\* C7: a context cancelled while the call sleeps between attempts makes the
\* call return the cancellation error, and the callback is not invoked again.
Thm_C7 ==
    /\ [][(txPc = "sleep" /\ ~ctxCancelled /\ ctxCancelled')
            => (/\ txPc' = "returned"
                /\ ~ret'.tx
                /\ ret'.err = "the submit context was canceled"
                /\ calls' = calls)]_vars
    /\ [][txPc = "returned" => (txPc' = "returned" /\ calls' = calls)]_vars

\* The call returned because it was cancelled during the wait.
Witness_C7 ==
    /\ txPc = "returned" /\ ctxCancelled
    /\ ret.cause = "ctx done during the wait"
    /\ calls >= 1

\* C25: every invocation of the callback carries value 0, gas limit
\* 3,000,000 and the nonce fetched at entry plus the number of earlier
\* invocations of this call that failed with "nonce too low".
Thm_C25 ==
    calls > 0 =>
        /\ lastCall.value = 0
        /\ lastCall.gasLimit = 3000000
        /\ lastCall.nonce
             = chainNonce + nLow - (IF lastCall.err = "nonceTooLow" THEN 1 ELSE 0)

\* A third invocation, after one "nonce too low", failed as underpriced and
\* the call waits: the nonce moved once and the last failure left it alone.
Witness_C25 ==
    /\ calls = 3 /\ nLow = 1
    /\ txPc = "sleep"
    /\ lastCall.err = "underpriced"
    /\ lastCall.nonce = chainNonce + 1
    /\ IntNonce = chainNonce + 1

\* C26 as stated: the callback is invoked at an attempt only if the balance
\* read at that attempt is at least the attempt's gas price times the gas
\* limit of 3,000,000.
Claim_C26 ==
    calls > 0 => lastCall.balance \div 3000000 >= lastCall.gasPrice

\* C27 as stated: the call waits the 15 seconds only after a callback error
\* that is neither "nonce too low" nor "replacement transaction underpriced".
Claim_C27 == txPc = "sleep" => lastCall.err = "callback"

\* C32 as stated: with no gas_price entry in the store, or one that does not
\* decode, the call takes the client's suggested price as its base price and
\* goes on to the attempt loop; it ends before the loop only when an RPC or
\* the store read fails, with that error.
Claim_C32 ==
    getInt(dbGas) = Nil =>
       /\ txPc # "panicked"
       /\ txPc = "returned" /\ calls = 0 /\ i = 0 => ret.cause = "rpc"

-----------------------------------------------------------------------------
\* Properties of SolutionHandler.Submit (checked under SpecHandler).

\* The reasons with which Submit gives up because a read of the store failed.
ReadFailures == {"timeout retrieval error", "could not retrieve pricing data"}

\* All five request ids of the challenge have a decodable value in the store.
AllValuesAvailable == \A id \in ReqIDSet : DecodeBigOk(kv.queried[id])

\* The time-out entry the latest Submit read holds a timestamp.
ReadTimestamp == DecodeBigOk(lastSubmit.lastS) /\ DecodeBig(lastSubmit.lastS) > 0

\* C8: a Submit call that reads a last-submit timestamp less than 15 minutes
\* before now does not invoke the submitter and returns false because of the
\* fifteen minute rule; a call that reads a timestamp 15 minutes or more in
\* the past, with all five values available and no failing read, invokes the
\* submitter.
Thm_C8 ==
    /\ [][(lastSubmit'.n = lastSubmit.n + 1 /\ ReadTimestamp'
             /\ lastSubmit'.now - DecodeBig(lastSubmit'.lastS) < 15 * 60)
            => (/\ submitted' = submitted
                /\ lastSubmit'.prepared = NoTxn
                /\ ~lastSubmit'.result
                /\ lastSubmit'.reason \in {"within fifteen minutes",
                                           "timeout retrieval error"})]_vars
    /\ [][(lastSubmit'.n = lastSubmit.n + 1 /\ ReadTimestamp'
             /\ lastSubmit'.now - DecodeBig(lastSubmit'.lastS) >= 15 * 60
             /\ AllValuesAvailable
             /\ lastSubmit'.reason \notin ReadFailures)
            => (/\ lastSubmit'.result
                /\ lastSubmit'.prepared.ctxName = "submitSolution"
                /\ submitted'[lastSubmit'.challenge]
                      = submitted[lastSubmit'.challenge] + 1)]_vars

\* A first call gave up, and the second call, exactly 15 minutes after the
\* stored timestamp, went on to the submitter.
Witness_C8 ==
    /\ lastSubmit.n = 2 /\ lastSubmit.result
    /\ lastSubmit.lastS = EncodeBig(LastMined)
    /\ lastSubmit.now = LastMined + 15 * 60
    /\ submitted[lastSubmit.challenge] = 1
    /\ \A c \in Challenges \ {lastSubmit.challenge} : submitted[c] = 0

Claim_C10 == \A c \in Challenges : submitted[c] <= 1

-----------------------------------------------------------------------------
\* Properties of SolutionHandler.Submit (checked under SpecValues).

\* A step of one Submit call.
SubmitStep == lastSubmit'.n = lastSubmit.n + 1

\* C11 as stated: a Result is handed to the submitter only if its challenge
\* is the current challenge of the store at that time.
Claim_C11 ==
    lastSubmit.prepared.ctxName = "submitSolution"
        => lastSubmit.challenge = kv.currentChallenge

\* C12 as stated: when a value handed to the submitter lies outside the band
\* of the confident sample points around the submission time, a
\* dispute-candidate file is written and the submission proceeds.
Claim_C12 ==
    [][(/\ SubmitStep
        /\ lastSubmit'.prepared.ctxName = "submitSolution"
        /\ \E k \in 1..5 :
              LET check == CheckValueAtTime(psr[RequestIDs[k]],
                                            lastSubmit'.prepared.values[k])
              IN ~check.nil /\ ~check.WithinRange)
        => (disputeFiles' > disputeFiles /\ lastSubmit'.result)]_vars

LegacyValueMissing ==
    \E id \in ReqIDSet : id <= 53 /\ kv.queried[id] = Absent /\ manualData[id] = 0

\* C14: with a request id <= 53 that has neither a stored value nor a
\* non-zero manual value, a Submit call returns false and does not invoke the
\* submitter, whatever is stored for the other request ids.
Thm_C14 ==
    [][(SubmitStep /\ LegacyValueMissing)
        => (/\ ~lastSubmit'.result
            /\ lastSubmit'.prepared = NoTxn
            /\ submitted' = submitted)]_vars

\* Request id 1 alone is missing, the time-out entry lets the call through,
\* and the call gave up for the missing value.
Witness_C14 ==
    /\ lastSubmit.n = 1 /\ ~lastSubmit.result
    /\ lastSubmit.reason = "no value in database"
    /\ lastSubmit.lastS = EncodeBig(0)
    /\ kv.queried[1] = Absent /\ manualData[1] = 0
    /\ \A id \in ReqIDSet \ {1} : kv.queried[id] = EncodeBig(10 * id)
    /\ \A c \in Challenges : submitted[c] = 0

\* Some request id above 53 has no stored value.
NewValueMissing == \E id \in ReqIDSet : id > 53 /\ kv.queried[id] = Absent

\* C15 as stated: with a request id > 53 that has no stored value, a Submit
\* call gives up and does not invoke the submitter.
Orig_C15 ==
    [][(SubmitStep /\ NewValueMissing)
        => (/\ ~lastSubmit'.result
            /\ lastSubmit'.prepared = NoTxn
            /\ submitted' = submitted)]_vars

\* C15 amended: a request id > 53 without a stored value does not make
\* Submit give up: when the time-out entry lets the call through, no read
\* fails, and every other request id has a decodable value, the submitter is
\* invoked, and every submission carries 0 for a request id > 53 without a
\* stored value.
Thm_C15 ==
    /\ [][(/\ SubmitStep /\ NewValueMissing
            /\ DecodeBigOk(lastSubmit'.lastS)
            /\ (DecodeBig(lastSubmit'.lastS) = 0
                   \/ lastSubmit'.now - DecodeBig(lastSubmit'.lastS) >= 15 * 60)
            /\ lastSubmit'.reason \notin {"timeout retrieval error",
                                           "could not retrieve pricing data"}
            /\ \A id \in ReqIDSet :
                  DecodeBigOk(kv.queried[id]) \/ (id > 53 /\ kv.queried[id] = Absent))
            => (/\ lastSubmit'.result
                /\ lastSubmit'.prepared.ctxName = "submitSolution"
                /\ submitted'[lastSubmit'.challenge]
                      = submitted[lastSubmit'.challenge] + 1)]_vars
    /\ [][(SubmitStep /\ lastSubmit'.prepared.ctxName = "submitSolution")
            => \A k \in 1..5 :
                 (RequestIDs[k] > 53 /\ kv.queried[RequestIDs[k]] = Absent)
                    => lastSubmit'.prepared.values[k] = 0]_vars

\* A submission that carries 0 for request id 54, which has no stored value.
Witness_C15 ==
    /\ lastSubmit.result
    /\ kv.queried[54] = Absent
    /\ lastSubmit.prepared.values = <<10, 20, 530, 0, 600>>
    /\ submitted[lastSubmit.challenge] >= 1


\* C33 as stated: a manual value is applied only to the request id it is
\* configured for: in every submission, the value of a request id up to 53
\* whose stored value does not decode is that id's own manualData entry.
Claim_C33 ==
    lastSubmit.prepared.ctxName = "submitSolution"
        => \A k \in 1..5 :
             (RequestIDs[k] <= 53 /\ ~DecodeBigOk(kv.queried[RequestIDs[k]]))
               => lastSubmit.prepared.values[k] = manualData[RequestIDs[k]]

\* C34 as stated: every submission handed to the submitter carries five
\* non-nil values, whatever the store holds.
Claim_C34 ==
    lastSubmit.prepared.ctxName = "submitSolution"
        => \A k \in 1..5 : lastSubmit.prepared.values[k] # Nil

-----------------------------------------------------------------------------
\* Properties of the database file (SpecStore) and of mineCmd (SpecCmd).

\* C16 as stated: with the database open, Get returns for every key the
\* value most recently Put under it, in this run or in an earlier one.
Claim_C16 ==
    dbHandle.open
        => \A k \in StoreKeys : putLog[k] # Absent => StoreGet(k) = putLog[k]

\* C17 as stated: once 60 polls have gone by, the process has left the
\* shutdown loop, whether or not the components have stopped.
Claim_C17 == cnt > 60 => cmdPc = "exited"

\* C38 as stated: after the interrupt the miner's exit channel is signalled,
\* whether or not the data server ever receives from its own.
Claim_C38 == (cmdPc = "notify") ~> (components["miner"] \in {"signalled", "stopped"})

-----------------------------------------------------------------------------
\* Properties of the start of the mine command (SpecMine).

\* C40 as stated: the mining manager is started only when the entry under
\* dispute_status decodes to 1, and the command does not crash on an entry
\* that is absent, undecodable or different from 1.
Claim_C40 ==
    /\ cmdPc # "panicked"
    /\ components["miner"] # "nil"
         => (/\ DecodeBigOk(StoreGet("dispute_status"))
             /\ DecodeBig(StoreGet("dispute_status")) = 1)

-----------------------------------------------------------------------------
\* Properties of MiningGroup.Mine (SpecGroup, FairSpecGroup).

Count(w) == Cardinality({n \in 1 .. Len(output) : output[n].work = w})
Preempted == {p[1] : p \in preempted}
\* The group still owes w its Result.
InFlight(w) == w = work \/ (w = accepted /\ pending = "dispatch")

\* C18: every Work gets at most one Result; a Work cancelled or superseded
\* before its Result gets none; a Work the group is done with and that was
\* not cancelled has exactly one.
Thm_C18 ==
    \A w \in WorkIDs :
        /\ Count(w) <= 1
        /\ w \in Preempted => Count(w) = 0
        /\ (w <= accepted /\ w \notin Preempted /\ ~InFlight(w)) => Count(w) = 1

\* One Work was cancelled while its hashers were computing and a later one
\* has its Result.
Witness_C18 ==
    /\ <<1, "none">> \in preempted
    /\ \E n \in 1 .. Len(output) : output[n].work > 1

\* C19: a step writes at most one Result, and a Result that is not nil is
\* for the Work most recently read from the input channel and is the only
\* Result for it.
Thm_C19 ==
    [][output' # output =>
          /\ Len(output') = Len(output) + 1
          /\ SubSeq(output', 1, Len(output)) = output
          /\ LET res == output'[Len(output')]
             IN res # NilResult =>
                  /\ res.work = accepted
                  /\ res.latest = accepted
                  /\ ~Emitted(res.work)]_vars

\* Work 2 arrived after a hasher had found the nonce of Work 1 and before
\* the Result was written; the only Result is the one of Work 2.
Witness_C19 ==
    /\ <<1, "emit">> \in preempted
    /\ output = <<[work |-> 2, latest |-> 2]>>

NilCount == Cardinality({n \in 1 .. Len(output) : output[n] = NilResult})

\* C20: once a nil Work is read the group eventually has written the
\* nil Result and is closed; there is never more than one nil Result, and
\* nothing is written after it.
Thm_C20 ==
    /\ nilSent ~> (groupPc = "closed" /\ NilCount = 1
                     /\ output[Len(output)] = NilResult)
    /\ [](NilCount <= 1)
    /\ [][NilCount = 1 => output' = output]_vars

\* The nil Work arrived while the hashers were computing Work 1: the group
\* is closed and the nil Result is all it wrote.
Witness_C20 ==
    /\ groupPc = "closed"
    /\ accepted = 1
    /\ <<1, "none">> \in preempted
    /\ output = <<NilResult>>

-----------------------------------------------------------------------------
\* Properties of CheckValueAtTime (SpecCheck).

\* The sample points whose confidence is at least 0.8.
AtLeastThreshold == {k \in 1 .. 5 : valueCheck.samples[k].conf >= 80}

\* C28 as stated: the datapoints are the sample points with a confidence of
\* at least 0.8, and the result is nil exactly when there is none.
Claim_C28 ==
    valueCheck.done =>
        /\ Len(valueCheck.res.Datapoints) = Cardinality(AtLeastThreshold)
        /\ valueCheck.res.nil <=> AtLeastThreshold = {}

\* C29 as stated: WithinRange is true exactly when the value lies in the
\* closed band [min*(1-T), max*(1+T)] of the accepted datapoints.
Claim_C29 ==
    (valueCheck.done /\ ~valueCheck.res.nil) =>
        LET dps == valueCheck.res.Datapoints
            lo == MinOf(dps) * 95
            hi == MaxOf(dps) * 105
        IN valueCheck.res.WithinRange
             <=> (valueCheck.val * 100 >= lo /\ valueCheck.val * 100 <= hi)

-----------------------------------------------------------------------------
\* Properties of the puzzle (SpecPuzzle).

\* CheckSolution: the remainder of the hash of the decoded challenge and
\* address, followed by the bytes of the nonce, modulo the difficulty.
CheckSolution(challenge, addr, nonce, difficulty) ==
    hashFn(decodeHex(SprintfX(challenge) \o addr) \o AsciiBytes(nonce)) % difficulty

-----------------------------------------------------------------------------
\* Properties of web.Fetch and web.Get (SpecFetch).

\* The attempt answered with a 2xx status and a readable body.
Succeeded(a) == a.fail = "nil" /\ a.status >= 200 /\ a.status <= 299

\* C22: a call makes at most 5 attempts; it returns data exactly when its
\* last attempt is the first one that succeeded, and the data is that
\* attempt's body; after 5 failed attempts it returns no data and an error
\* that describes the fifth failure.
Thm_C22 ==
    LET n == Len(fetch.attempts) IN
    /\ n <= 5
    /\ \A k \in 1 .. n - 1 : ~Succeeded(fetch.attempts[k])
    /\ (n > 0 /\ Succeeded(fetch.attempts[n]))
         => (fetch.pc = "returned" /\ fetch.data = <<"body", n>> /\ fetch.err = "nil")
    /\ (fetch.pc = "returned" /\ fetch.data # <<>>)
         => (n > 0 /\ Succeeded(fetch.attempts[n]))
    /\ (fetch.pc = "returned" /\ fetch.data = <<>>) => fetch.err # "nil"
    /\ (fetch.pc = "returned" /\ n = 5 /\ ~Succeeded(fetch.attempts[5])
          /\ fetch.err # "context canceled")
         => /\ fetch.data = <<>>
            /\ fetch.err[2] = 5
            /\ fetch.err[1] = IF fetch.attempts[5].fail # "nil"
                               THEN fetch.attempts[5].fail
                               ELSE "response status code not OK"

\* Five failed attempts, the last one a 404: no data, the error of the
\* fifth attempt.
Witness_C22 ==
    /\ fetch.pc = "returned"
    /\ Len(fetch.attempts) = 5
    /\ fetch.attempts[5].status = 404
    /\ fetch.err = <<"response status code not OK", 5>>

\* C31: once the context of a call is cancelled the call issues no further
\* HTTP request and returns the context's error.
Claim_C31 ==
    [][fetch.cancelled =>
         /\ Len(fetch'.attempts) = Len(fetch.attempts)
         /\ fetch'.pc = "returned" => fetch'.err = "context canceled"]_vars

-----------------------------------------------------------------------------
\* Properties of JSONapiVolume.Get (SpecVolume).

\* The source timestamp of the latest successful fetch among the first k
\* (0 when there is none).
LastOkTS(k) ==
    LET oks == {j \in 1 .. k : volume.fetched[j].fail = "nil"}
    IN IF oks = {} THEN 0
       ELSE volume.fetched[CHOOSE j \in oks : \A o \in oks : o <= j].ts

\* C23: a Get that fetched and parsed returns 0 when the parsed timestamp
\* is the one of the previous successful fetch and the parsed value
\* otherwise; a failed Get returns an error; the remembered timestamp is
\* always the one of the latest successful fetch.
Thm_C23 ==
    LET n == Len(volume.fetched) IN
    /\ volume.lastTS = LastOkTS(n)
    /\ n > 0 =>
         LET got == volume.fetched[n] IN
         IF got.fail = "nil"
         THEN /\ volume.err = "nil"
              /\ volume.val = IF got.ts = LastOkTS(n - 1) THEN 0 ELSE got.val
         ELSE volume.err = got.fail /\ volume.val = 0

\* Timestamp 2 was fetched, a fetch failed, and timestamp 2 came again with
\* value 7: the Get returned 0; then an older timestamp returned its value.
Witness_C23 ==
    /\ Len(volume.fetched) = 4
    /\ volume.fetched[1].fail = "nil" /\ volume.fetched[1].ts = 2
    /\ volume.fetched[2].fail = "parsing data"
    /\ volume.fetched[3] = [fail |-> "nil", val |-> 7, ts |-> 2]
    /\ volume.fetched[4] = [fail |-> "nil", val |-> 5, ts |-> 1]
    /\ volume.val = 5

-----------------------------------------------------------------------------
\* Properties of the trackers (SpecTracker).

\* The last of the Execs that satisfy ok (0 when none does).
LatestExec(ok(_)) ==
    LET hits == {j \in 1 .. Len(tracker.execs) : ok(tracker.execs[j])}
    IN IF hits = {} THEN 0 ELSE CHOOSE j \in hits : \A o \in hits : o <= j

\* The store holds under the tracker's key the encoding of the chain value
\* of Exec number j (nothing when j = 0).
HoldsValueOf(j) ==
    IF j = 0 THEN tracker.stored = Absent
    ELSE /\ DecodeBigOk(tracker.stored)
         /\ DecodeBig(tracker.stored) = tracker.execs[j].poll.value

ReturnedNil(e) == e.ret = "nil"
\* The Exec read the tracker's value from the chain and stored it.
PollSucceeded(e) == e.poll.chain = "ok" /\ e.poll.put

-----------------------------------------------------------------------------
\* Properties of IndexTracker.record (SpecSampler).

\* The step is an iteration that ends the way out says.
TickEnds(out) ==
    /\ Len(sampler'.ticks) = Len(sampler.ticks) + 1
    /\ sampler'.ticks[Len(sampler'.ticks)] = out

\* The step called dataSource.Get.
Fetched == \E out \in {"get", "value append", "value commit", "ok"} : TickEnds(out)

\* The step appended exactly one value sample, with the time of the
\* iteration.
OneValueSample ==
    /\ Len(sampler'.values) = Len(sampler.values) + 1
    /\ SubSeq(sampler'.values, 1, Len(sampler.values)) = sampler.values
    /\ sampler'.values[Len(sampler'.values)].ts = sampler.now

\* What every iteration does around the fetch: the interval sample of its
\* time is there before Get is called; a failed Get adds one to the error
\* counter and appends no value sample, any other iteration leaves the
\* counter alone; the loop goes on to its select and leaves only there, when
\* the context is cancelled.
AroundFetch ==
    /\ Fetched => /\ Len(sampler'.intervals) = Len(sampler.intervals) + 1
                  /\ sampler'.intervals[Len(sampler'.intervals)] = sampler.now
    /\ TickEnds("get") => /\ sampler'.getErrors = sampler.getErrors + 1
                          /\ sampler'.values = sampler.values
    /\ ~TickEnds("get") => sampler'.getErrors = sampler.getErrors
    /\ sampler'.pc = "exited" => sampler.pc = "select"

\* C30 as stated: as above, and an iteration whose Get succeeded appends
\* exactly one value sample with the time of its interval sample.
Orig_C30 ==
    [][/\ AroundFetch
       /\ (Fetched /\ ~TickEnds("get")) => OneValueSample]_vars

\* C30 amended: as above, and an iteration whose Get succeeded appends
\* exactly one value sample with the time of its interval sample when the
\* append and the commit of that sample succeed, and none when one of them
\* fails; an iteration that did not reach Get appends none either.
Thm_C30 ==
    [][/\ AroundFetch
       /\ TickEnds("ok") => OneValueSample
       /\ ~TickEnds("ok") => sampler'.values = sampler.values]_vars

\* Three iterations: a failed Get, a complete one, and one whose value
\* sample could not be committed.
Witness_C30 ==
    /\ sampler.ticks = <<"get", "ok", "value commit">>
    /\ sampler.getErrors = 1
    /\ Len(sampler.intervals) = 3
    /\ Len(sampler.values) = 1 /\ sampler.values[1].ts = 2

-----------------------------------------------------------------------------
\* Properties of disputeChecker.Exec (SpecChecker).

\* A step of one Exec call that read the head.
CheckerStep ==
    /\ checker'.n = checker.n + 1
    /\ checker'.ret # "failed to get latest eth block header"

\* C35 as stated: lastCheckedBlock never decreases, and an Exec call whose
\* head is fewer than 100 blocks past lastCheckedBlock, a head below
\* lastCheckedBlock included, scans no logs.
Claim_C35 ==
    [][CheckerStep =>
         /\ checker'.lastCheckedBlock >= checker.lastCheckedBlock
         /\ (checker.lastCheckedBlock # 0
               /\ checker'.head - checker.lastCheckedBlock < 100)
              => /\ checker'.scans = checker.scans
                 /\ checker'.lastCheckedBlock = checker.lastCheckedBlock]_vars

\* The scanned ranges that hold block b.
Covering(b) ==
    {k \in 1 .. Len(checker.scans) :
        checker.scans[k].from <= b /\ b <= checker.scans[k].to}

\* C36 as stated: while the head only grows and every scan succeeds, each
\* block from the initial lastCheckedBlock to the latest checked block lies
\* in exactly one scanned range.
Claim_C36 ==
    (/\ checker.growing
     /\ checker.scans # <<>>
     /\ \A k \in 1 .. Len(checker.scans) : checker.scans[k].ok)
       => \A b \in checker.first .. checker.lastCheckedBlock :
             Cardinality(Covering(b)) = 1

-----------------------------------------------------------------------------
\* Properties of GasTracker.Exec (SpecGasTracker).

\* C37 as stated: an Exec that can obtain no gas price does not crash and
\* leaves the stored gas_price as it was.
Claim_C37 ==
    [][(/\ gasTracker'.n = gasTracker.n + 1
        /\ gasTracker'.netID # 0
        /\ gasTracker'.price = Nil)
         => (/\ gasTracker'.pc # "panicked"
             /\ gasTracker'.stored = gasTracker.stored)]_vars

-----------------------------------------------------------------------------
\* Properties of ProfitChecker.setProfitWhenConfirmed (SpecProfit).

\* C39 as stated: the call never crashes; when waitMined gives no receipt
\* it returns without adding profit; profit is added only for an event that
\* is not removed and whose receipt is successful.
Claim_C39 ==
    /\ profit.pc # "panicked"
    /\ profit.err # "nil" => (profit.pc = "returned" /\ profit.added = 0)
    /\ profit.added # 0 => (~profit.removed /\ profit.receipt = "successful")

====
